---- MODULE Spec2Model ----
(***************************************************************************)
(* A model of the trix-hub scheduling core:                                *)
(*   - trixhub/conditions.py          ConditionEvaluator                    *)
(*   - trixhub/schedulers/base.py     BaseScheduler (display step, waits)   *)
(*   - trixhub/schedulers/simple_rotation.py  flat rotation                 *)
(*   - trixhub/schedulers/time_windowed.py    time-windowed rotation        *)
(*   - trixhub/providers/base.py      DataProvider (the TTL cache)          *)
(*   - trixhub/gtfs/gtfs_manager.py   GTFSManager (merge of the arrivals)   *)
(*                                                                         *)
(* Strings are sequences of character codes.  Only digits and '-' occur in *)
(* the MM-DD strings that are compared, so a digit is its value 0..9 and   *)
(* '-' is Dash, which is below every digit as in ASCII (45 < 48): the      *)
(* lexicographic order of Python's str comparison is kept.                 *)
(***************************************************************************)
EXTENDS Integers, Sequences, FiniteSets, TLC

VARIABLES
    mode,               \* scheduler_config["mode"]
    rotations,          \* TimeWindowedScheduler.rotations
    fallback_rotation,  \* TimeWindowedScheduler.fallback_rotation
    provider_rotation,  \* SimpleRotationScheduler.provider_rotation
    providers,          \* BaseScheduler.providers (names that were initialized)
    failing,            \* providers whose get_data raises on every call
    shutdown_requested, \* BaseScheduler.shutdown_requested
    pc,                 \* position of run()
    active,             \* active_rotation of the running cycle
    rotation_name,      \* the name the running cycle compares against
    idx,                \* position of the for loop over the provider list
    slices,             \* iterations left of the sliced wait in progress
    now,                \* datetime.now(): minutes since midnight
    today,              \* datetime.now(): the calendar date
    lastWait,           \* the time.sleep call made by the last scheduler step
    lastShown,          \* the last rotation entry whose display step began
    data,               \* _display_provider: metadata of the fetched DisplayData
    duration,           \* _display_provider: the resolved hold duration
    clears,             \* client.clear_display() calls since the cycle began
    waited,             \* time.sleep was called in the pass of run()'s loop
    args,               \* inputs of the pure function under check
    out,                \* its result
    cache_duration,     \* DataProvider.get_cache_duration(), in seconds
    cache,              \* DataProvider._cache: <<>> (None) or <<object>>
    cache_expires,      \* DataProvider._cache_expires: <<>> (None) or <<time>>
    clock,              \* datetime.now() of the provider, in seconds
    fetches,            \* fetch_data invocations so far
    provider_pc,        \* position of get_data: "idle" or "fetching"
    call,               \* the get_data call in progress, or the last one
    got,                \* what the last get_data call gave its caller
    errors,             \* the fetched objects whose content has "error": True
    manager_instances,  \* _manager_instances: URL pair -> GTFSManager
    files,              \* the gtfs_feed_*.pickle files of the cache directories
    unixtime,           \* time.time(), in seconds
    downloads,          \* static feeds downloaded and parsed so far
    op                  \* the last call of the GTFS manager and its outcome

vars == <<mode, rotations, fallback_rotation, provider_rotation, providers,
          failing, shutdown_requested, pc, active, rotation_name, idx, slices,
          now, today, lastWait, lastShown, data, duration, clears, waited,
          args,
          out, cache_duration, cache, cache_expires, clock, fetches,
          provider_pc, call, got, errors,
          manager_instances, files, unixtime, downloads, op>>

schedVars == <<mode, rotations, fallback_rotation, provider_rotation, providers,
               failing, shutdown_requested, pc, active, rotation_name, idx,
               slices, now, today, lastWait, lastShown, data, duration,
               clears, waited>>

cacheVars == <<cache_duration, cache, cache_expires, clock, fetches,
               provider_pc, call, got, errors>>

gtfsVars == <<manager_instances, files, unixtime, downloads, op>>

\* what the schedulers leave alone
pureVars == <<args, out, cacheVars, gtfsVars>>

----------------------------------------------------------------------------
(* Bounds of the model *)

\* sampling step (minutes) of the times of day the window test is tried on
TimeStep == 180

\* the explicit "duration" values of the rotation entries of the configurations
HoldA == 1
HoldB == 2

\* the suggested_display_duration a provider puts in DisplayData.metadata
\* (30 in the providers; small here, and different from the other durations)
Suggested == 3

\* scheduler_config["default_display_duration"] of the configurations
DefaultDuration == 4

\* clear_display calls counted per stay in one rotation (the count saturates)
MaxClears == 2

\* the cache duration of a caching provider, in seconds (30 in TimeProvider
\* and BusArrivalProvider)
CacheSeconds == 2

\* the provider's clock runs from 0 to MaxClock seconds
MaxClock == 5

\* get_data calls made on the provider
MaxCalls == 4

\* the look-ahead windows tried are 1..MaxWindowMinutes minutes
MaxWindowMinutes == 2

\* the seconds the realtime request may take between the two clock readings
\* of get_merged_arrivals (its timeout is 10)
MaxDelay == 5

\* the bus provider is tried on arrivals 0..MaxMinutes minutes ahead
MaxMinutes == 16

----------------------------------------------------------------------------
(* Strings *)

Dash == 0 - 3

RECURSIVE StrLeq(_, _)
\* Python's a <= b on two str values: lexicographic by character code
StrLeq(a, b) ==
    IF a = <<>> THEN TRUE
    ELSE IF b = <<>> THEN FALSE
    ELSE IF Head(a) < Head(b) THEN TRUE
    ELSE IF Head(a) > Head(b) THEN FALSE
    ELSE StrLeq(Tail(a), Tail(b))

\* a two-digit zero-padded decimal, as %m, %d format it
TwoDigits(n) == <<n \div 10, n % 10>>

\* now.strftime("%m-%d")
StrfMonthDay(d) == TwoDigits(d.month) \o <<Dash>> \o TwoDigits(d.day)

----------------------------------------------------------------------------
(* Times of day: a time string is absent (None or ""), "HH:MM" with two    *)
(* integer fields, or text that does not split into two integers.          *)

HHMM(h, m) == [kind |-> "hhmm", h |-> h, m |-> m]
JunkTime == [kind |-> "junk", h |-> 0, m |-> 0]
NoTime == [kind |-> "absent", h |-> 0, m |-> 0]

\* the "HH:MM" string of a minute of the day
FormatMinutes(t) == HHMM(t \div 60, t % 60)

\* TimeWindowedScheduler._parse_time
ParseTime(time_str) ==
    IF time_str.kind # "hhmm" THEN 0
    ELSE IF ~(0 <= time_str.h /\ time_str.h <= 23)
            \/ ~(0 <= time_str.m /\ time_str.m <= 59) THEN 0
    ELSE time_str.h * 60 + time_str.m

\* a slip of the comparison: the end of the window is included
IsTimeInWindowInclusiveEnd(current_minutes, start, end) ==
    LET start_min == ParseTime(start)
        end_min == ParseTime(end)
    IN  IF start_min <= end_min
        THEN start_min <= current_minutes /\ current_minutes <= end_min
        ELSE current_minutes >= start_min \/ current_minutes <= end_min

\* TimeWindowedScheduler._is_time_in_window
IsTimeInWindow(current_minutes, start, end) ==
    LET start_min == ParseTime(start)
        end_min == ParseTime(end)
    IN  IF start_min <= end_min
        THEN start_min <= current_minutes /\ current_minutes < end_min
        ELSE current_minutes >= start_min \/ current_minutes < end_min

----------------------------------------------------------------------------
(* Condition sets.  A configured value is a JSON value: absent (the key is *)
(* missing, null or an empty list), a list of elements, or a bare number.  *)
(* An element is a string or an integer; both carry a sequence of ints so  *)
(* that every element has one type (an integer n is <<n>>).                *)

StrEl(s) == [t |-> "str", v |-> s]
IntEl(n) == [t |-> "int", v |-> <<n>>]
Absent == [shape |-> "absent", items |-> <<>>]
List(xs) == [shape |-> "list", items |-> xs]
Number == [shape |-> "number", items |-> <<>>]

\* "MM-DD" as written in a configuration file
MD(m, d) == StrEl(TwoDigits(m) \o <<Dash>> \o TwoDigits(d))

\* a conditions value: missing (None or {}), a dict of the four kinds, or a
\* JSON value that is not a dict (isdict = FALSE)
Conditions(dm, dr, dow, mo) ==
    [present |-> TRUE, isdict |-> TRUE, date_match |-> dm, date_range |-> dr,
     day_of_week |-> dow, months |-> mo]
NoConditions ==
    [present |-> FALSE, isdict |-> TRUE, date_match |-> Absent,
     date_range |-> Absent, day_of_week |-> Absent, months |-> Absent]
NotADict ==
    [present |-> TRUE, isdict |-> FALSE, date_match |-> Absent,
     date_range |-> Absent, day_of_week |-> Absent, months |-> Absent]

Items(v) == {v.items[i] : i \in 1..Len(v.items)}

\* the outcome of a check: Python's None, True, False, or an exception raised
Outcome(b) == IF b THEN "True" ELSE "False"

\* Python's "not v" of a configuration value: the key is missing, or its
\* value is None or an empty list
Falsy(v) == v.shape = "absent" \/ (v.shape = "list" /\ v.items = <<>>)

\* ConditionEvaluator._check_date_match
CheckDateMatch(conditions, date) ==
    LET date_list == conditions.date_match
    IN  IF Falsy(date_list) THEN "None"
        ELSE IF date_list.shape = "number" THEN "Raise"
        ELSE Outcome(StrEl(StrfMonthDay(date)) \in Items(date_list))

\* a slip of the wraparound: both comparisons required
CheckDateRangeNoWrap(conditions, date) ==
    LET date_range == conditions.date_range
        day == StrfMonthDay(date)
    IN  IF Falsy(date_range) THEN "None"
        ELSE IF date_range.shape = "number" THEN "Raise"
        ELSE IF Len(date_range.items) # 2 THEN "None"
        ELSE LET start == date_range.items[1]
                 end == date_range.items[2]
             IN  IF start.t # "str" \/ end.t # "str" THEN "Raise"
                 ELSE Outcome(StrLeq(start.v, day) /\ StrLeq(day, end.v))

\* ConditionEvaluator._check_date_range
CheckDateRange(conditions, date) ==
    LET date_range == conditions.date_range
        day == StrfMonthDay(date)
    IN  IF Falsy(date_range) THEN "None"
        ELSE IF date_range.shape = "number" THEN "Raise"
        ELSE IF Len(date_range.items) # 2 THEN "None"
        ELSE LET start == date_range.items[1]
                 end == date_range.items[2]
             IN  IF start.t # "str" \/ end.t # "str" THEN "Raise"
                 ELSE IF StrLeq(start.v, end.v)
                 THEN Outcome(StrLeq(start.v, day) /\ StrLeq(day, end.v))
                 ELSE Outcome(StrLeq(start.v, day) \/ StrLeq(day, end.v))

\* ConditionEvaluator._check_day_of_week
CheckDayOfWeek(conditions, date) ==
    LET days == conditions.day_of_week
        weekday == (date.weekday + 1) % 7
    IN  IF Falsy(days) THEN "None"
        ELSE IF days.shape = "number" THEN "Raise"
        ELSE Outcome(IntEl(weekday) \in Items(days))

\* ConditionEvaluator._check_months
CheckMonths(conditions, date) ==
    LET months == conditions.months
    IN  IF Falsy(months) THEN "None"
        ELSE IF months.shape = "number" THEN "Raise"
        ELSE Outcome(IntEl(date.month) \in Items(months))

\* a slip of the combination: any() of the checks in place of all()
ShouldRunAny(conditions, date) ==
    IF ~conditions.present THEN "True"
    ELSE IF ~conditions.isdict THEN "Raise"
    ELSE LET checks == <<CheckDateMatch(conditions, date),
                         CheckDateRange(conditions, date),
                         CheckDayOfWeek(conditions, date),
                         CheckMonths(conditions, date)>>
         IN  IF \E i \in 1..4 : checks[i] = "Raise" THEN "Raise"
             ELSE Outcome(\/ \A i \in 1..4 : checks[i] = "None"
                          \/ \E i \in 1..4 : checks[i] = "True")

\* ConditionEvaluator.should_run: "True", "False", or "Raise" when a check
\* (or the lookup in a value that is no dict) raises
ShouldRun(conditions, date) ==
    IF ~conditions.present THEN "True"
    ELSE IF ~conditions.isdict THEN "Raise"
    ELSE LET checks == <<CheckDateMatch(conditions, date),
                         CheckDateRange(conditions, date),
                         CheckDayOfWeek(conditions, date),
                         CheckMonths(conditions, date)>>
         IN  IF \E i \in 1..4 : checks[i] = "Raise" THEN "Raise"
             ELSE Outcome(\A i \in 1..4 : checks[i] \in {"None", "True"})

----------------------------------------------------------------------------
(* Scheduler configuration *)

\* program constants
BackoffSeconds == 2
BlankPollSlices == 5
SliceSeconds == 1

\* a rotation entry {"name": n} or {"name": n, "duration": d}
Entry(n) == [name |-> n, has_duration |-> FALSE, duration |-> 0]
EntryFor(n, d) == [name |-> n, has_duration |-> TRUE, duration |-> d]

\* a rotation window; named = FALSE when the dict has no "name" key
Window(n, s, e, c, b, ps) ==
    [named |-> TRUE, name |-> n, start |-> s, end |-> e, conditions |-> c,
     blank_screen |-> b, providers |-> ps]
Unnamed(s, e, c, b, ps) ==
    [named |-> FALSE, name |-> "", start |-> s, end |-> e, conditions |-> c,
     blank_screen |-> b, providers |-> ps]

\* rotation.get("name", default)
GetName(rotation, default) == IF rotation.named THEN rotation.name ELSE default

\* the names _init_providers constructs a provider for: "time", "weather",
\* "s3_image" and the names that start with "bus_" (for a name that starts
\* with "weather_" it calls WeatherProvider(config_key=...), which takes no
\* such argument: the TypeError is caught and the provider is left out)
KnownProviders == {"time", "weather", "s3_image", "bus_67", "bus_9"}

\* _get_provider_list of the flat scheduler
FlatProviderList(rotation) == rotation

RECURSIVE Concat(_)
Concat(ss) == IF ss = <<>> THEN <<>> ELSE Head(ss) \o Concat(Tail(ss))

\* TimeWindowedScheduler._get_provider_list: the entries of all rotations and
\* of the fallback (the scheduler keeps one provider per name)
WindowedProviderList(rs, fb) ==
    Concat([i \in 1..Len(rs) |-> rs[i].providers]) \o fb.providers

\* providers with "enabled": false in the providers section of the configuration
DisabledProviders == {"bus_9"}

\* BaseScheduler._init_providers: the names of the list that are enabled and
\* have a class
InitProviders(list) ==
    ({list[i].name : i \in 1..Len(list)} \ DisabledProviders) \cap KnownProviders

----------------------------------------------------------------------------
(* The configurations and the environment the scheduler is run on *)

Flat == "simple_rotation"
Windowed == "time_windowed_rotation"

\* "day_of_week": [0, 6] (Sunday and Saturday)
Weekend == Conditions(Absent, Absent, List(<<IntEl(0), IntEl(6)>>), Absent)

\* "date_range": [1220, "01-10"]: the first bound is a JSON number
BadRange == Conditions(Absent, List(<<IntEl(1220), MD(1, 10)>>), Absent, Absent)

\* the fallback_rotation of the configurations (no "name" key, as the default
\* fallback of TimeWindowedScheduler.__init__)
Fallback ==
    Unnamed(NoTime, NoTime, NoConditions, FALSE,
            <<EntryFor("time", HoldB), Entry("weather")>>)

\* named windows: a conditional window ahead of an unconditional one on the
\* same hours, a blank night window across midnight
NamedRotations ==
    <<Window("weekend", HHMM(6, 0), HHMM(8, 0), Weekend, FALSE,
             <<EntryFor("time", HoldB), Entry("weather")>>),
      Window("morning", HHMM(6, 0), HHMM(8, 0), NoConditions, FALSE,
             <<EntryFor("weather", HoldA), Entry("ghost"), Entry("time")>>),
      Window("night", HHMM(21, 0), HHMM(6, 0), NoConditions, TRUE, <<>>)>>

\* the same hours with windows that carry no "name" key
UnnamedRotations ==
    <<Unnamed(HHMM(6, 0), HHMM(8, 0), NoConditions, FALSE,
              <<Entry("weather"), EntryFor("time", HoldA)>>),
      Unnamed(HHMM(21, 0), HHMM(6, 0), NoConditions, TRUE, <<>>)>>

\* a window without a start time, a window whose start is no "HH:MM" text,
\* a window whose date_range holds a number
MalformedRotations ==
    <<Window("nostart", NoTime, HHMM(8, 0), NoConditions, FALSE,
             <<Entry("weather")>>),
      Window("junk", JunkTime, HHMM(6, 0), NoConditions, FALSE,
             <<EntryFor("time", HoldA)>>),
      Window("holiday", HHMM(6, 0), HHMM(8, 0), BadRange, FALSE,
             <<Entry("time")>>)>>

\* a window that is not blank and lists no providers
EmptyRotations ==
    <<Window("empty", HHMM(6, 0), HHMM(8, 0), NoConditions, FALSE, <<>>)>>

WindowedConfigs ==
    {NamedRotations, UnnamedRotations, MalformedRotations, EmptyRotations}

\* flat rotations: one with the same provider in two entries of different
\* durations and an unknown provider, one with distinct providers, one with
\* the image provider and a disabled provider, one with no provider that
\* was constructed, and the empty list
FlatConfigs ==
    {<<EntryFor("time", HoldA), Entry("weather"), Entry("ghost"),
       EntryFor("time", HoldB)>>,
     <<Entry("weather"), EntryFor("bus_67", HoldB)>>,
     <<Entry("s3_image"), Entry("bus_9"), EntryFor("time", HoldA)>>,
     <<Entry("ghost")>>,
     <<>>}

\* the "conditions" of the s3_image section of the configuration:
\* "date_match": ["12-25"]
S3Conditions == Conditions(List(<<MD(12, 25)>>), Absent, Absent, Absent)

\* the sets of providers that raise on every fetch
FailingSets == {{}, {"weather"}}

\* the times of day the clock is read at, in order: 05:00, 07:00, 12:00, 21:30
ClockTimes == <<300, 420, 720, 1290>>

\* the dates the clock is read on: Saturday 12-25 and Monday 06-15
\* (weekday as datetime.weekday(): 0 = Monday .. 6 = Sunday)
Dates == {[month |-> 12, day |-> 25, weekday |-> 5],
          [month |-> 6, day |-> 15, weekday |-> 0]}

ClockIndex(t) == CHOOSE i \in 1..Len(ClockTimes) : ClockTimes[i] = t

NoWait == [kind |-> "none", len |-> 0]
Wait(k, n) == [kind |-> k, len |-> n]

\* what lastShown holds: the rotation (by position, 0 = fallback or the flat
\* list) and the position of the entry in it
Shown(r, i) == [rot |-> r, idx |-> i]

PureIdle == args = <<>> /\ out = <<>>

\* what get_data gave its caller: nothing yet, a DisplayData object (every
\* fetch_data call builds a new one; id is its identity), or an exception
Nothing == [kind |-> "none", id |-> 0]
Data(i) == [kind |-> "data", id |-> i]
Raised == [kind |-> "raise", id |-> 0]

\* a get_data call: its number, its force_refresh argument, the value of
\* now it read, and what became of fetch_data in it ("none": not invoked)
Call(n, f, t, r) == [n |-> n, force_refresh |-> f, now |-> t, fetch |-> r]

\* self.feed of a manager that has not loaded the static feed (None), and
\* the feed parsed from the v-th download of the static URL of pair p
NoFeed == [pair |-> "", version |-> 0]
StaticFeed(p, v) == [pair |-> p, version |-> v]

\* a file gtfs_feed_{x}.pickle in directory d: the snapshot in it, whether
\* pickle.load fails on it, whether os.remove and open(.., 'wb') succeed on it
PickleFile(d, x, f, c, r) ==
    [dir |-> d, expires |-> x, feed |-> f, corrupt |-> c, removable |-> r]

\* no path (None)
NoFile == PickleFile("", 0, NoFeed, FALSE, FALSE)

\* a call of get_gtfs_manager (kind "get") or of _load_static_feed (kind
\* "load") on the manager of pair p: the force_refresh argument, the path
\* _get_pickle_path returned (looked: it was called), whether a feed was
\* downloaded, whether _save_pickle completed, the feed _load_static_feed
\* returned or the instance get_gtfs_manager returned (by its number),
\* whether the call raised, and the cache_dir and cache_days
\* get_gtfs_manager was called with
NoArgs == [cache_dir |-> "", cache_days |-> 0]
GtfsCall(k, p, f, l, path, d, s, r, i, x, a) ==
    [kind |-> k, pair |-> p, force_refresh |-> f, looked |-> l, path |-> path,
     downloaded |-> d, saved |-> s, ret |-> r, instance |-> i, raised |-> x,
     asked |-> a]

NoCall ==
    GtfsCall("none", "", FALSE, FALSE, NoFile, FALSE, FALSE, NoFeed, 0, FALSE,
             NoArgs)

\* a process that never asks for a GTFS manager
GtfsIdle ==
    /\ manager_instances = <<>>
    /\ files = {}
    /\ unixtime = 0
    /\ downloads = 0
    /\ op = NoCall

\* DataProvider.__init__, of a provider that is never called
CacheIdle ==
    /\ cache_duration = 0
    /\ cache = <<>>
    /\ cache_expires = <<>>
    /\ clock = 0
    /\ fetches = 0
    /\ provider_pc = "idle"
    /\ call = Call(0, FALSE, 0, "none")
    /\ got = Nothing
    /\ errors = {}

SchedInit ==
    /\ mode \in {Flat, Windowed}
    /\ \/ /\ mode = Flat
          /\ provider_rotation \in FlatConfigs
          /\ rotations = <<>>
          /\ providers = InitProviders(FlatProviderList(provider_rotation))
       \/ /\ mode = Windowed
          /\ provider_rotation = <<>>
          /\ rotations \in WindowedConfigs
          /\ providers = InitProviders(WindowedProviderList(rotations, Fallback))
    /\ fallback_rotation = Fallback
    /\ failing \in FailingSets
    /\ shutdown_requested = FALSE
    /\ pc = "cycle"
    /\ active = 0
    /\ rotation_name = ""
    /\ idx = 0
    /\ slices = 0
    /\ now \in {ClockTimes[i] : i \in 1..Len(ClockTimes)}
    /\ today \in Dates
    /\ lastWait = NoWait
    /\ lastShown = Shown(0, 0)
    /\ data = <<>>
    /\ duration = 0
    /\ clears = 0
    /\ waited = FALSE

Init == SchedInit /\ PureIdle /\ CacheIdle /\ GtfsIdle

----------------------------------------------------------------------------
(* The transition rule of the time-windowed scheduler *)

\* TimeWindowedScheduler._check_rotation_conditions
CheckRotationConditions(rotation, date) ==
    IF ~rotation.conditions.present THEN "True"
    ELSE ShouldRun(rotation.conditions, date)

\* the test _get_active_rotation makes of one rotation: "True" when it is
\* returned, "False" when the loop goes on, "Raise" when the conditions raise
RotationMatches(rotation, current_minutes, date) ==
    IF rotation.start.kind = "absent" \/ rotation.end.kind = "absent"
    THEN "False"
    ELSE IF ~IsTimeInWindow(current_minutes, rotation.start, rotation.end)
    THEN "False"
    ELSE CheckRotationConditions(rotation, date)

RECURSIVE ScanFirstTimeMatch(_, _, _, _)
\* a slip of the loop: the first rotation that matches on time decides, and
\* the fallback is used when its conditions fail
ScanFirstTimeMatch(rs, i, current_minutes, date) ==
    IF i > Len(rs) THEN 0
    ELSE IF rs[i].start.kind = "absent" \/ rs[i].end.kind = "absent"
            \/ ~IsTimeInWindow(current_minutes, rs[i].start, rs[i].end)
    THEN ScanFirstTimeMatch(rs, i + 1, current_minutes, date)
    ELSE LET m == CheckRotationConditions(rs[i], date)
         IN  IF m = "Raise" THEN 0 - 1 ELSE IF m = "True" THEN i ELSE 0

RECURSIVE ScanRotations(_, _, _, _)
\* the for loop of _get_active_rotation from position i on: the position of
\* the rotation returned, 0 for the fallback, -1 when an exception leaves it
ScanRotations(rs, i, current_minutes, date) ==
    IF i > Len(rs) THEN 0
    ELSE LET m == RotationMatches(rs[i], current_minutes, date)
         IN  IF m = "Raise" THEN 0 - 1
             ELSE IF m = "True" THEN i
             ELSE ScanRotations(rs, i + 1, current_minutes, date)

\* TimeWindowedScheduler._get_active_rotation, read at the current time
GetActiveRotation == ScanRotations(rotations, 1, now, today)

\* the rotation at a position
RotationAt(i) == IF i = 0 THEN fallback_rotation ELSE rotations[i]

\* TimeWindowedScheduler._should_switch_rotation
ShouldSwitchRotation(current_rotation_name) ==
    LET a == GetActiveRotation
    IN  IF a < 0 THEN "Raise"
        ELSE Outcome(GetName(RotationAt(a), "fallback") # current_rotation_name)

----------------------------------------------------------------------------
(* The display step *)

\* BaseScheduler._get_display_duration; metadata is <<>> or <<suggested>>
GetDisplayDuration(metadata, has_override, override_duration) ==
    IF has_override THEN override_duration
    ELSE IF metadata # <<>> THEN metadata[1]
    ELSE DefaultDuration

RECURSIVE FirstDuration(_, _, _)
FirstDuration(list, i, provider_name) ==
    IF i > Len(list) THEN <<>>
    ELSE IF list[i].name = provider_name /\ list[i].has_duration
    THEN <<list[i].duration>>
    ELSE FirstDuration(list, i + 1, provider_name)

\* SimpleRotationScheduler._get_provider_duration_override: <<>> is None
GetProviderDurationOverride(provider_name) ==
    FirstDuration(provider_rotation, 1, provider_name)

\* the provider list the for loop in progress walks
CurrentProviders ==
    IF mode = Flat THEN provider_rotation ELSE RotationAt(active).providers

\* the duration_override the loop passes to _display_provider: <<>> is None
DurationOverride(entry) ==
    IF mode = Flat THEN GetProviderDurationOverride(entry.name)
    ELSE IF entry.has_duration THEN <<entry.duration>> ELSE <<>>

Min(a, b) == IF a < b THEN a ELSE b

----------------------------------------------------------------------------
(* The scheduler as a state machine.  One step of run() runs from one      *)
(* blocking call to the next: a loop head with the tests that follow it, a *)
(* fetch with its render and post, one time.sleep call.  shutdown() is the *)
(* signal handler's call; it takes effect between two such steps.          *)
(*                                                                         *)
(* pc:  "cycle"       the while loop head of run()                         *)
(*      "rot_loop"    the for loop head over the provider list             *)
(*      "fetch"       _display_provider: get_data, render, post in progress*)
(*      "hold"        _display_provider: the sliced display wait           *)
(*      "backoff"     _display_provider: the except branch, before sleep   *)
(*      "blank_loop"  _handle_blank_screen: its while loop head            *)
(*      "blank_sleep" _handle_blank_screen: the sliced idle wait           *)
(*      "returned"    run() returned                                       *)
(*      "crashed"     an exception left run()                              *)

config == <<mode, rotations, fallback_rotation, provider_rotation, providers,
            failing>>

Running == pc \notin {"returned", "crashed"}

\* run() of both schedulers: the while loop head.  The time-windowed one
\* evaluates the transition rule and enters _handle_blank_screen (which
\* clears the display) or _run_rotation.
RunLoop ==
    /\ pc = "cycle"
    /\ lastWait' = NoWait
    /\ IF shutdown_requested
       THEN pc' = "returned" /\ UNCHANGED <<active, rotation_name, idx, clears>>
       ELSE IF mode = Flat
       THEN pc' = "rot_loop" /\ idx' = 1
            /\ UNCHANGED <<active, rotation_name, clears>>
       ELSE LET a == GetActiveRotation
            IN  IF a < 0
                THEN pc' = "crashed"
                     /\ UNCHANGED <<active, rotation_name, idx, clears>>
                ELSE /\ active' = a
                     /\ IF RotationAt(a).blank_screen
                        THEN /\ rotation_name' = GetName(RotationAt(a), "blank")
                             /\ clears' = IF a = active
                                          THEN Min(clears + 1, MaxClears)
                                          ELSE 1
                             /\ pc' = "blank_loop"
                             /\ idx' = 0
                        ELSE /\ rotation_name' = GetName(RotationAt(a), "fallback")
                             /\ clears' = 0
                             /\ pc' = "rot_loop"
                             /\ idx' = 1
    /\ waited' = FALSE
    /\ UNCHANGED <<config, shutdown_requested, slices, now, today, lastShown,
                   data, duration, pureVars>>

\* _handle_blank_screen: the while loop head
BlankLoop ==
    /\ pc = "blank_loop"
    /\ lastWait' = NoWait
    /\ IF shutdown_requested
       THEN pc' = "cycle" /\ UNCHANGED slices
       ELSE LET sw == ShouldSwitchRotation(rotation_name)
            IN  IF sw = "Raise" THEN pc' = "crashed" /\ UNCHANGED slices
                ELSE IF sw = "True" THEN pc' = "cycle" /\ UNCHANGED slices
                ELSE pc' = "blank_sleep" /\ slices' = BlankPollSlices
    /\ waited' = (waited \/ lastWait' # NoWait)
    /\ UNCHANGED <<config, shutdown_requested, active, rotation_name, idx, now,
                   today, lastShown, data, duration, clears, pureVars>>

\* _handle_blank_screen: one iteration of "for _ in range(5)"
BlankSleep ==
    /\ pc = "blank_sleep"
    /\ IF shutdown_requested \/ slices = 0
       THEN pc' = "blank_loop" /\ slices' = 0 /\ lastWait' = NoWait
       ELSE pc' = pc /\ slices' = slices - 1
            /\ lastWait' = Wait("idle", SliceSeconds)
    /\ waited' = (waited \/ lastWait' # NoWait)
    /\ UNCHANGED <<config, shutdown_requested, active, rotation_name, idx, now,
                   today, lastShown, data, duration, clears, pureVars>>

\* a slip of the for loop: the shutdown flag is not tested at its head
RotLoopNoShutdownTest ==
    /\ pc = "rot_loop"
    /\ lastWait' = NoWait
    /\ IF idx > Len(CurrentProviders)
       THEN pc' = "cycle" /\ idx' = 0 /\ UNCHANGED lastShown
       ELSE LET sw == IF mode = Flat THEN "False"
                      ELSE ShouldSwitchRotation(rotation_name)
                entry == CurrentProviders[idx]
            IN  IF sw = "Raise"
                THEN pc' = "crashed" /\ UNCHANGED <<idx, lastShown>>
                ELSE IF sw = "True"
                THEN pc' = "cycle" /\ idx' = 0 /\ UNCHANGED lastShown
                ELSE /\ lastShown' = Shown(active, idx)
                     /\ IF entry.name \notin providers
                        THEN pc' = pc /\ idx' = idx + 1
                        ELSE pc' = "fetch" /\ UNCHANGED idx
    /\ waited' = (waited \/ lastWait' # NoWait)
    /\ UNCHANGED <<config, shutdown_requested, active, rotation_name, slices,
                   now, today, data, duration, clears, pureVars>>

\* the for loop head of SimpleRotationScheduler.run and of _run_rotation: the
\* loop ends, or breaks on shutdown or on a rotation switch, or the entry's
\* display step begins (_display_provider returns at once for a provider
\* that was not initialized)
RotLoop ==
    /\ pc = "rot_loop"
    /\ lastWait' = NoWait
    /\ IF idx > Len(CurrentProviders) \/ shutdown_requested
       THEN pc' = "cycle" /\ idx' = 0 /\ UNCHANGED lastShown
       ELSE LET sw == IF mode = Flat THEN "False"
                      ELSE ShouldSwitchRotation(rotation_name)
                entry == CurrentProviders[idx]
            IN  IF sw = "Raise"
                THEN pc' = "crashed" /\ UNCHANGED <<idx, lastShown>>
                ELSE IF sw = "True"
                THEN pc' = "cycle" /\ idx' = 0 /\ UNCHANGED lastShown
                ELSE /\ lastShown' = Shown(active, idx)
                     /\ IF entry.name \notin providers
                        THEN pc' = pc /\ idx' = idx + 1
                        ELSE pc' = "fetch" /\ UNCHANGED idx
    /\ waited' = (waited \/ lastWait' # NoWait)
    /\ UNCHANGED <<config, shutdown_requested, active, rotation_name, slices,
                   now, today, data, duration, clears, pureVars>>

\* DataProvider._load_conditions attaches an evaluator when the provider's
\* section has conditions; S3ImageProvider is the one class that calls it
HasEvaluator(provider_name) == provider_name = "s3_image" /\ S3Conditions.present

\* DataProvider.should_run
ProviderShouldRun(provider_name) ==
    IF ~HasEvaluator(provider_name) THEN "True"
    ELSE ShouldRun(S3Conditions, today)

\* a display step that asks the provider: an entry whose should_run is not
\* true is passed over
FetchIfShouldRun ==
    /\ pc = "fetch"
    /\ lastWait' = NoWait
    /\ LET entry == CurrentProviders[idx]
           override == DurationOverride(entry)
       IN  IF ProviderShouldRun(entry.name) # "True"
           THEN /\ pc' = "rot_loop" /\ idx' = idx + 1
                /\ UNCHANGED <<data, duration, slices>>
           ELSE /\ UNCHANGED idx
                /\ \/ /\ entry.name \in failing
                      /\ pc' = "backoff"
                      /\ UNCHANGED <<data, duration, slices>>
                   \/ /\ entry.name \notin failing
                      /\ \E metadata \in {<<>>, <<Suggested>>} :
                            /\ data' = metadata
                            /\ duration' = GetDisplayDuration(metadata,
                                             override # <<>>,
                                             IF override # <<>> THEN override[1]
                                             ELSE 0)
                      /\ slices' = duration'
                      /\ pc' = "hold"
    /\ waited' = (waited \/ lastWait' # NoWait)
    /\ UNCHANGED <<config, shutdown_requested, active, rotation_name, now,
                   today, lastShown, clears, pureVars>>

\* _display_provider: get_data, render and post.  A provider of failing
\* raises; any other returns DisplayData with or without a suggested
\* duration.  post_bitmap's result is only printed.
Fetch ==
    /\ pc = "fetch"
    /\ lastWait' = NoWait
    /\ LET entry == CurrentProviders[idx]
           override == DurationOverride(entry)
       IN  \/ /\ entry.name \in failing
              /\ pc' = "backoff"
              /\ UNCHANGED <<data, duration, slices>>
           \/ /\ entry.name \notin failing
              /\ \E metadata \in {<<>>, <<Suggested>>} :
                    /\ data' = metadata
                    /\ duration' = GetDisplayDuration(metadata, override # <<>>,
                                     IF override # <<>> THEN override[1] ELSE 0)
              /\ slices' = duration'
              /\ pc' = "hold"
    /\ waited' = (waited \/ lastWait' # NoWait)
    /\ UNCHANGED <<config, shutdown_requested, active, rotation_name, idx, now,
                   today, lastShown, clears, pureVars>>

\* a slip of the display wait: the whole duration is slept through
HoldNoShutdownTest ==
    /\ pc = "hold"
    /\ IF slices = 0
       THEN /\ pc' = "rot_loop" /\ idx' = idx + 1 /\ slices' = 0
            /\ data' = <<>> /\ duration' = 0 /\ lastWait' = NoWait
       ELSE /\ slices' = slices - 1 /\ lastWait' = Wait("hold", SliceSeconds)
            /\ UNCHANGED <<pc, idx, data, duration>>
    /\ waited' = (waited \/ lastWait' # NoWait)
    /\ UNCHANGED <<config, shutdown_requested, active, rotation_name, now,
                   today, lastShown, clears, pureVars>>

\* _display_provider: one iteration of "for _ in range(duration)"
Hold ==
    /\ pc = "hold"
    /\ IF shutdown_requested \/ slices = 0
       THEN /\ pc' = "rot_loop" /\ idx' = idx + 1 /\ slices' = 0
            /\ data' = <<>> /\ duration' = 0 /\ lastWait' = NoWait
       ELSE /\ slices' = slices - 1 /\ lastWait' = Wait("hold", SliceSeconds)
            /\ UNCHANGED <<pc, idx, data, duration>>
    /\ waited' = (waited \/ lastWait' # NoWait)
    /\ UNCHANGED <<config, shutdown_requested, active, rotation_name, now,
                   today, lastShown, clears, pureVars>>

\* a slip of the except branch: the failed entry is tried again
BackoffRetry ==
    /\ pc = "backoff"
    /\ lastWait' = Wait("backoff", BackoffSeconds)
    /\ pc' = "rot_loop"
    /\ waited' = (waited \/ lastWait' # NoWait)
    /\ UNCHANGED <<config, shutdown_requested, active, rotation_name, idx,
                   slices, now, today, lastShown, data, duration, clears,
                   pureVars>>

\* _display_provider: the except branch sleeps and returns False
Backoff ==
    /\ pc = "backoff"
    /\ lastWait' = Wait("backoff", BackoffSeconds)
    /\ pc' = "rot_loop"
    /\ idx' = idx + 1
    /\ waited' = (waited \/ lastWait' # NoWait)
    /\ UNCHANGED <<config, shutdown_requested, active, rotation_name, slices,
                   now, today, lastShown, data, duration, clears, pureVars>>

\* BaseScheduler.shutdown, called by the signal handler while run() runs
Shutdown ==
    /\ Running
    /\ shutdown_requested' = TRUE
    /\ UNCHANGED waited
    /\ UNCHANGED <<config, pc, active, rotation_name, idx, slices, now, today,
                   lastWait, lastShown, data, duration, clears, pureVars>>

\* the clock moves on, while a blocking call is in progress, to the next time
\* it is read at; past midnight the date is another one.  The flat scheduler
\* reads the clock for its log lines only.
Tick ==
    /\ pc \in {"fetch", "hold", "backoff", "blank_sleep"}
    /\ mode = Windowed
    /\ LET i == ClockIndex(now)
       IN  IF i = Len(ClockTimes)
           THEN now' = ClockTimes[1] /\ today' \in Dates
           ELSE now' = ClockTimes[i + 1] /\ today' = today
    /\ UNCHANGED waited
    /\ UNCHANGED <<config, shutdown_requested, pc, active, rotation_name, idx,
                   slices, lastWait, lastShown, data, duration, clears,
                   pureVars>>

\* the steps of the thread that runs run()
SchedulerStep ==
    \/ RunLoop
    \/ BlankLoop
    \/ BlankSleep
    \/ RotLoop
    \/ Fetch
    \/ Hold
    \/ Backoff

Next == SchedulerStep \/ Shutdown \/ Tick

Spec == Init /\ [][Next]_vars

\* run() is a running thread: every blocking call of a step returns
FairSpec == Spec /\ WF_vars(SchedulerStep)

----------------------------------------------------------------------------
(* The window test on its own: _is_time_in_window applied to the "HH:MM"   *)
(* strings of sampled minutes of the day                                    *)

\* the minutes tried: a grid over the day, and 05:00, 06:00, 12:00, 21:00,
\* 23:30 and 23:59
SampleMinutes ==
    {k * TimeStep : k \in 0..(1439 \div TimeStep)}
        \cup {300, 360, 720, 1260, 1410, 1439}

\* the scheduler is not running in the specifications of the pure functions
SchedIdle ==
    /\ mode = Flat
    /\ rotations = <<>>
    /\ fallback_rotation = Fallback
    /\ provider_rotation = <<>>
    /\ providers = {}
    /\ failing = {}
    /\ shutdown_requested = FALSE
    /\ pc = "returned"
    /\ active = 0
    /\ rotation_name = ""
    /\ idx = 0
    /\ slices = 0
    /\ now = ClockTimes[1]
    /\ today = CHOOSE d \in Dates : d.month = 12
    /\ lastWait = NoWait
    /\ lastShown = Shown(0, 0)
    /\ data = <<>>
    /\ duration = 0
    /\ clears = 0
    /\ waited = FALSE

WindowInit ==
    /\ SchedIdle
    /\ CacheIdle
    /\ GtfsIdle
    /\ args \in [now : SampleMinutes, start : SampleMinutes, end : SampleMinutes]
    /\ out = <<>>

\* one call _is_time_in_window(now, start, end)
CallIsTimeInWindow ==
    /\ out = <<>>
    /\ out' = <<IsTimeInWindow(args.now, FormatMinutes(args.start),
                               FormatMinutes(args.end))>>
    /\ UNCHANGED <<schedVars, args, cacheVars, gtfsVars>>

WindowSpec == WindowInit /\ [][CallIsTimeInWindow]_vars

\* C8: for start, end, now in minutes since midnight the window is active iff
\* (start <= end and start <= now < end) or (start > end and (now >= start or
\* now < end)); a window with start = end is never active; 21:00-06:00 is
\* active at 23:30 and 05:00 and inactive at 12:00.
C8_WindowActive ==
    out # <<>> =>
        /\ out[1] = (\/ (args.start <= args.end /\ args.start <= args.now
                         /\ args.now < args.end)
                     \/ (args.start > args.end
                         /\ (args.now >= args.start \/ args.now < args.end)))
        /\ (args.start = args.end => out[1] = FALSE)
        /\ (args.start = 1260 /\ args.end = 360 /\ args.now \in {1410, 300}
                => out[1] = TRUE)
        /\ (args.start = 1260 /\ args.end = 360 /\ args.now = 720
                => out[1] = FALSE)

\* the wraparound window 21:00-06:00 found active at 05:00
C8_Witness ==
    /\ out = <<TRUE>>
    /\ args.start = 1260 /\ args.end = 360 /\ args.now = 300

----------------------------------------------------------------------------
(* Properties of the schedulers *)

\* a step of the thread that runs run() (Shutdown and Tick leave these alone)
SchedulerMoved == <<pc, idx, slices>>' # <<pc, idx, slices>>

\* the step in which the display step of the entry at idx begins
EntryStarts ==
    /\ pc = "rot_loop"
    /\ pc' = "fetch" \/ (pc' = "rot_loop" /\ idx' = idx + 1)

\* rotation i matches on time and on its conditions
WindowQualifies(i) ==
    /\ rotations[i].start.kind # "absent"
    /\ rotations[i].end.kind # "absent"
    /\ IsTimeInWindow(now, rotations[i].start, rotations[i].end)
    /\ CheckRotationConditions(rotations[i], today) = "True"

\* C1: a fetch or render that raises is caught inside the display step, the
\* scheduler sleeps the fixed backoff and goes on with the next entry of the
\* rotation; the failure never ends run(); and in the flat rotation, unless
\* shutdown is requested, every entry with a working provider keeps being
\* displayed.
C1_FailureSkipped ==
    /\ [][(pc = "fetch" /\ CurrentProviders[idx].name \in failing
             /\ SchedulerMoved) => pc' = "backoff"]_vars
    /\ [][(pc = "backoff" /\ SchedulerMoved)
             => (/\ pc' = "rot_loop"
                 /\ idx' = idx + 1
                 /\ lastWait' = Wait("backoff", BackoffSeconds))]_vars
    /\ [][(pc \in {"fetch", "backoff"})
             => (pc' \notin {"crashed", "returned"})]_vars
    /\ \A list \in FlatConfigs : \A i \in 1..Len(list) :
          (/\ mode = Flat
           /\ provider_rotation = list
           /\ list[i].name \in providers \ failing)
             => ([]<>(pc = "hold" /\ idx = i) \/ <>shutdown_requested)

\* the entry after a failing provider is on display in the flat rotation
C1_Witness ==
    /\ mode = Flat
    /\ "weather" \in failing
    /\ Len(provider_rotation) = 4 /\ provider_rotation[2].name = "weather"
    /\ pc = "hold" /\ idx = 4
    /\ ~shutdown_requested

\* C2: run() is left only after shutdown has been requested, whatever fails
\* while it runs (a provider, the display client, a malformed condition set
\* or time string of a rotation window).
C2_RunExitsOnlyAfterShutdown ==
    pc \in {"returned", "crashed"} => shutdown_requested

\* C3: whenever the run loop evaluates the transition rule, the rotation it
\* takes is the first one in configured order that matches on time and on
\* its conditions, and it is the fallback iff no rotation matches on both.
C3_FirstMatchWins ==
    [][(mode = Windowed /\ pc = "cycle" /\ pc' \in {"rot_loop", "blank_loop"})
         => /\ active' \in 0..Len(rotations)
            /\ active' > 0 => WindowQualifies(active')
            /\ \A j \in 1..Len(rotations) :
                  (active' = 0 \/ j < active') => ~WindowQualifies(j)]_vars

\* on a Monday at 07:00 the weekend window is passed over for the morning one
C3_Witness ==
    /\ mode = Windowed /\ rotations = NamedRotations
    /\ now = 420 /\ today.weekday = 0
    /\ active = 2 /\ pc = "fetch"
    /\ IsTimeInWindow(now, rotations[1].start, rotations[1].end)

\* C4: no entry of a rotation starts to display at a moment when the
\* transition rule selects another rotation.
C4_NoStaleDisplay ==
    [][(mode = Windowed /\ EntryStarts) => GetActiveRotation = active]_vars

\* C5: a blank rotation clears the display once on entry, and its idle loop
\* is left only when the rule selects another rotation or shutdown is
\* requested.
C5_BlankIdles ==
    [][/\ clears' <= 1
       /\ (pc = "blank_loop" /\ pc' = "cycle")
            => (shutdown_requested \/ GetActiveRotation # active)]_vars

\* C6: once shutdown() was called the flag stays set, no further entry is
\* started, a display hold or idle wait in progress ends at its next slice,
\* and run() returns.
C6_Shutdown ==
    /\ [][shutdown_requested => shutdown_requested']_vars
    /\ [][shutdown_requested => ~EntryStarts]_vars
    /\ [][(shutdown_requested /\ pc \in {"hold", "blank_sleep"}
             /\ SchedulerMoved)
            => (lastWait' = NoWait /\ pc' \in {"rot_loop", "blank_loop"})]_vars
    /\ shutdown_requested ~> (pc = "returned")

\* run() returned after a shutdown requested during a display hold
C6_Witness ==
    /\ pc = "returned" /\ shutdown_requested
    /\ lastShown.idx > 0

\* C7 as stated: the only sleeps are slices of at most one second of the
\* display hold and of the blank idle wait.
C7_OnlySlicedWaits ==
    /\ lastWait.kind \in {"none", "hold", "idle"}
    /\ lastWait.len <= 1

\* C7 as amended: the sleeps are the display hold, the blank idle wait and
\* the failure backoff; a hold or idle slice is one second long and begins
\* only with the shutdown flag clear; the backoff is one sleep of
\* BackoffSeconds that does not look at the flag.
C7_SlicedWaitsAndBackoff ==
    [][SchedulerMoved =>
         /\ lastWait'.kind \in {"none", "hold", "idle", "backoff"}
         /\ lastWait'.kind = "hold"
              => (pc = "hold" /\ lastWait'.len = SliceSeconds
                  /\ SliceSeconds <= 1 /\ ~shutdown_requested)
         /\ lastWait'.kind = "idle"
              => (pc = "blank_sleep" /\ lastWait'.len = SliceSeconds
                  /\ SliceSeconds <= 1 /\ ~shutdown_requested)
         /\ lastWait'.kind = "backoff"
              => (pc = "backoff" /\ lastWait'.len = BackoffSeconds)]_vars

\* the backoff slept through although shutdown had been requested
C7_Witness ==
    /\ shutdown_requested
    /\ lastWait = Wait("backoff", BackoffSeconds)
    /\ pc = "rot_loop"

\* C9: the flat rotation starts its entries in list order, every pass from
\* the first entry to the last, the next pass again at the first.
C9_FlatOrder ==
    [][(mode = Flat /\ EntryStarts)
         => /\ idx = IF lastShown.idx \in {0, Len(provider_rotation)}
                     THEN 1 ELSE lastShown.idx + 1
            /\ lastShown' = Shown(0, idx)]_vars

\* a second pass is about to start at the first entry
C9_Witness ==
    /\ mode = Flat /\ ~shutdown_requested
    /\ pc = "rot_loop" /\ idx = 1
    /\ lastShown.idx = Len(provider_rotation)
    /\ Len(provider_rotation) = 4

\* C10: an entry is held for its own explicit duration if it has one,
\* otherwise for the suggested duration of the fetched data if present,
\* otherwise for the scheduler default.
C10_EntryDuration ==
    pc = "hold" =>
        LET entry == CurrentProviders[idx]
        IN  duration = IF entry.has_duration THEN entry.duration
                       ELSE IF data # <<>> THEN data[1]
                       ELSE DefaultDuration

----------------------------------------------------------------------------
(* The TTL cache of a provider.  get_data reads the clock, serves the live *)
(* cache entry or calls fetch_data; fetch_data is a blocking call (network, *)
(* S3, the GTFS feed) during which the clock moves on, and it returns a new *)
(* DisplayData object or raises.                                            *)

\* a slip of the hit branch: a hit renews the expiry (a sliding TTL)
GetDataSlidingExpiry(force_refresh) ==
    /\ provider_pc = "idle"
    /\ call.n < MaxCalls
    /\ LET now_ == clock
       IN  IF ~force_refresh /\ cache # <<>> /\ cache_expires # <<>>
              /\ now_ < cache_expires[1]
           THEN /\ got' = Data(cache[1])
                /\ call' = Call(call.n + 1, force_refresh, now_, "none")
                /\ cache_expires' = <<now_ + cache_duration>>
                /\ UNCHANGED <<fetches, provider_pc>>
           ELSE /\ call' = Call(call.n + 1, force_refresh, now_, "running")
                /\ fetches' = fetches + 1
                /\ provider_pc' = "fetching"
                /\ got' = Nothing
                /\ UNCHANGED cache_expires
    /\ UNCHANGED <<gtfsVars, schedVars, args, out, errors, cache_duration, cache,
                   clock>>

\* a slip of the hit test: force_refresh is not looked at
GetDataIgnoresForce(force_refresh) ==
    /\ provider_pc = "idle"
    /\ call.n < MaxCalls
    /\ LET now_ == clock
       IN  IF cache # <<>> /\ cache_expires # <<>> /\ now_ < cache_expires[1]
           THEN /\ got' = Data(cache[1])
                /\ call' = Call(call.n + 1, force_refresh, now_, "none")
                /\ UNCHANGED <<fetches, provider_pc>>
           ELSE /\ call' = Call(call.n + 1, force_refresh, now_, "running")
                /\ fetches' = fetches + 1
                /\ provider_pc' = "fetching"
                /\ got' = Nothing
    /\ UNCHANGED <<gtfsVars, schedVars, args, out, errors, cache_duration, cache, cache_expires,
                   clock>>

\* a slip of the expiry test: the entry is still served at its expiry
GetDataInclusiveExpiry(force_refresh) ==
    /\ provider_pc = "idle"
    /\ call.n < MaxCalls
    /\ LET now_ == clock
       IN  IF ~force_refresh /\ cache # <<>> /\ cache_expires # <<>>
              /\ now_ <= cache_expires[1]
           THEN /\ got' = Data(cache[1])
                /\ call' = Call(call.n + 1, force_refresh, now_, "none")
                /\ UNCHANGED <<fetches, provider_pc>>
           ELSE /\ call' = Call(call.n + 1, force_refresh, now_, "running")
                /\ fetches' = fetches + 1
                /\ provider_pc' = "fetching"
                /\ got' = Nothing
    /\ UNCHANGED <<gtfsVars, schedVars, args, out, errors, cache_duration, cache, cache_expires,
                   clock>>

\* DataProvider.get_data up to its return of the cached object or its call
\* of fetch_data
GetData(force_refresh) ==
    /\ provider_pc = "idle"
    /\ call.n < MaxCalls
    /\ LET now_ == clock
       IN  IF ~force_refresh /\ cache # <<>> /\ cache_expires # <<>>
              /\ now_ < cache_expires[1]
           THEN /\ got' = Data(cache[1])
                /\ call' = Call(call.n + 1, force_refresh, now_, "none")
                /\ UNCHANGED <<fetches, provider_pc>>
           ELSE /\ call' = Call(call.n + 1, force_refresh, now_, "running")
                /\ fetches' = fetches + 1
                /\ provider_pc' = "fetching"
                /\ got' = Nothing
    /\ UNCHANGED <<gtfsVars, schedVars, args, out, errors, cache_duration, cache, cache_expires,
                   clock>>

\* a slip of the store: an object with "error": True is not cached
FetchReturnsSkipsErrors ==
    /\ provider_pc = "fetching"
    /\ \E error \in BOOLEAN :
          LET data_ == fetches
          IN  /\ errors' = IF error THEN errors \cup {data_} ELSE errors
              /\ IF cache_duration > 0 /\ ~error
                 THEN /\ cache' = <<data_>>
                      /\ cache_expires' = <<call.now + cache_duration>>
                 ELSE UNCHANGED <<cache, cache_expires>>
              /\ got' = Data(data_)
    /\ call' = [call EXCEPT !.fetch = "ok"]
    /\ provider_pc' = "idle"
    /\ UNCHANGED <<gtfsVars, schedVars, args, out, cache_duration, clock, fetches>>

\* DataProvider.get_data after fetch_data returned: the object, successful
\* data or the error-shaped data of a fetch that caught its failure, is
\* stored when the provider caches, and returned
FetchReturns ==
    /\ provider_pc = "fetching"
    /\ \E error \in BOOLEAN :
          LET data_ == fetches
          IN  /\ errors' = IF error THEN errors \cup {data_} ELSE errors
              /\ IF cache_duration > 0
                 THEN /\ cache' = <<data_>>
                      /\ cache_expires' = <<call.now + cache_duration>>
                 ELSE UNCHANGED <<cache, cache_expires>>
              /\ got' = Data(data_)
    /\ call' = [call EXCEPT !.fetch = "ok"]
    /\ provider_pc' = "idle"
    /\ UNCHANGED <<gtfsVars, schedVars, args, out, cache_duration, clock, fetches>>

\* a slip of the failure path: fetch_data is called again
FetchRaisesRetries ==
    /\ provider_pc = "fetching"
    /\ fetches' = fetches + 1
    /\ UNCHANGED <<gtfsVars, schedVars, args, out, errors, cache_duration, cache, cache_expires,
                   clock, provider_pc, call, got>>

\* DataProvider.get_data when fetch_data raised: the exception leaves it
FetchRaises ==
    /\ provider_pc = "fetching"
    /\ got' = Raised
    /\ call' = [call EXCEPT !.fetch = "raise"]
    /\ provider_pc' = "idle"
    /\ UNCHANGED <<gtfsVars, schedVars, args, out, errors, cache_duration, cache, cache_expires,
                   clock, fetches>>

\* DataProvider.clear_cache
ClearCache ==
    /\ provider_pc = "idle"
    /\ cache # <<>>
    /\ cache' = <<>>
    /\ cache_expires' = <<>>
    /\ UNCHANGED <<gtfsVars, schedVars, args, out, errors, cache_duration, clock, fetches,
                   provider_pc, call, got>>

\* a second of the provider's clock passes
Advance ==
    /\ clock < MaxClock
    /\ clock' = clock + 1
    /\ UNCHANGED <<gtfsVars, schedVars, args, out, errors, cache_duration, cache, cache_expires,
                   fetches, provider_pc, call, got>>

\* a provider that does not cache (S3ImageProvider, the default of
\* DataProvider) or one that does, after construction
CacheInit ==
    /\ SchedIdle
    /\ PureIdle
    /\ GtfsIdle
    /\ cache_duration \in {0, CacheSeconds}
    /\ cache = <<>>
    /\ cache_expires = <<>>
    /\ clock = 0
    /\ fetches = 0
    /\ provider_pc = "idle"
    /\ call = Call(0, FALSE, 0, "none")
    /\ got = Nothing
    /\ errors = {}

CacheNext ==
    \/ \E force_refresh \in BOOLEAN : GetData(force_refresh)
    \/ FetchReturns
    \/ FetchRaises
    \/ ClearCache
    \/ Advance

CacheSpec == CacheInit /\ [][CacheNext]_vars

\* a step in which a get_data call begins
CallBegins == call'.n = call.n + 1

\* the cache holds an entry that has not expired
LiveEntry == cache # <<>> /\ cache_expires # <<>> /\ clock < cache_expires[1]

\* C11: get_data(force_refresh=False) with a cache entry and now before its
\* expiry returns the cached object itself, does not invoke fetch_data and
\* leaves the entry and its expiry as they were; so a second call made
\* within the cache duration of a successful fetch returns the object the
\* first one returned.
C11_LiveEntryServed ==
    /\ [][(CallBegins /\ ~call'.force_refresh /\ LiveEntry)
            => (/\ got' = Data(cache[1])
                /\ call'.fetch = "none"
                /\ fetches' = fetches
                /\ provider_pc' = "idle"
                /\ cache' = cache
                /\ cache_expires' = cache_expires)]_vars
    /\ [][(/\ CallBegins /\ ~call'.force_refresh
           /\ call.fetch = "ok" /\ cache_duration > 0 /\ cache # <<>>
           /\ clock < call.now + cache_duration)
            => (got.kind = "data" /\ got' = got)]_vars

\* the second call, one second after the fetch, was given the first object
C11_Witness ==
    /\ call.n = 2 /\ ~call.force_refresh /\ call.fetch = "none"
    /\ got = Data(1) /\ fetches = 1
    /\ clock = 1 /\ cache = <<1>> /\ cache_expires = <<CacheSeconds>>

\* C12: get_data(force_refresh=True) invokes fetch_data in every call, with
\* or without a live entry, returns the object that fetch gave, and a
\* caching provider's entry is replaced by it.
C12_ForcedRefetch ==
    /\ [][(CallBegins /\ call'.force_refresh)
            => (/\ fetches' = fetches + 1
                /\ provider_pc' = "fetching"
                /\ call'.fetch = "running")]_vars
    /\ [][(provider_pc = "fetching" /\ call.force_refresh
             /\ call'.fetch = "ok")
            => (/\ got' = Data(fetches)
                /\ cache # <<got'.id>>
                /\ cache_duration > 0 => cache' = <<got'.id>>)]_vars

\* a forced call replaced an entry that was still live
C12_Witness ==
    /\ call.force_refresh /\ call.fetch = "ok"
    /\ fetches = 2 /\ got = Data(2) /\ cache = <<2>>
    /\ call.now < CacheSeconds /\ cache_expires = <<call.now + CacheSeconds>>

\* C13: a successful fetch by a call that read the clock at t, in a provider
\* of cache duration d > 0, leaves the cache holding the fetched object with
\* expiry t + d; the entry is served only while now < expiry, and a
\* non-forced call at or after the expiry fetches again.  A provider of
\* cache duration 0 never stores an entry and fetches in every call.
C13_ExpiryAndNoCache ==
    /\ [][(provider_pc = "fetching" /\ call'.fetch = "ok"
             /\ cache_duration > 0)
            => (/\ cache' = <<got'.id>>
                /\ got' = Data(fetches)
                /\ cache_expires' = <<call.now + cache_duration>>)]_vars
    /\ [][(CallBegins /\ call'.fetch = "none") => LiveEntry]_vars
    /\ [][(CallBegins /\ cache_expires # <<>> /\ clock >= cache_expires[1])
            => (fetches' = fetches + 1 /\ call'.fetch = "running")]_vars
    /\ [](cache_duration = 0 => (cache = <<>> /\ cache_expires = <<>>))
    /\ [][(CallBegins /\ cache_duration = 0)
            => (fetches' = fetches + 1)]_vars

\* a non-forced call made at the very expiry of the entry fetches again
C13_Witness ==
    /\ provider_pc = "fetching" /\ ~call.force_refresh
    /\ cache = <<1>> /\ cache_expires = <<call.now>>
    /\ fetches = 2

\* C14: one get_data call invokes fetch_data at most once; when fetch_data
\* raises, the exception reaches the caller and the cache entry and its
\* expiry are what they were before the call.
C14_FetchFailure ==
    /\ [][(fetches' # fetches)
            => (CallBegins /\ fetches' = fetches + 1)]_vars
    /\ [][(provider_pc = "fetching")
            => (provider_pc' = "fetching" \/ call'.fetch \in {"ok", "raise"})]_vars
    /\ [][(call'.fetch = "raise" /\ call.fetch # "raise")
            => (/\ got' = Raised
                /\ provider_pc' = "idle"
                /\ cache' = cache
                /\ cache_expires' = cache_expires)]_vars
    /\ [][(CallBegins) => (cache' = cache /\ cache_expires' = cache_expires)]_vars

\* a fetch raised in a call made after the entry had expired; the entry is
\* still in the cache
C14_Witness ==
    /\ got = Raised /\ call.fetch = "raise" /\ provider_pc = "idle"
    /\ cache = <<1>> /\ cache_expires # <<>> /\ call.now >= cache_expires[1]
    /\ fetches = 2

----------------------------------------------------------------------------
(* The arrivals of a stop: GTFSManager.get_scheduled_arrivals,              *)
(* get_realtime_arrivals and get_merged_arrivals.  Times are seconds since  *)
(* the midnight of the day of the call.                                     *)

\* seconds in a minute
SecondsPerMinute == 60

\* the static feed: feed.trips joined with feed.routes.  T9 is in no table.
Trips ==
    [T6 |-> [route_id |-> "R61", route_short_name |-> "61",
             direction |-> "OB", headsign |-> "Braddock"]] @@
    [T1 |-> [route_id |-> "R67", route_short_name |-> "67",
             direction |-> "IB", headsign |-> "Downtown"],
     T2 |-> [route_id |-> "R67", route_short_name |-> "67",
             direction |-> "OB", headsign |-> "Monroeville"],
     T3 |-> [route_id |-> "R69", route_short_name |-> "69",
             direction |-> "IB", headsign |-> "Trafford"],
     T4 |-> [route_id |-> "R71", route_short_name |-> "71A",
             direction |-> "OB", headsign |-> "Negley"],
     T5 |-> [route_id |-> "R71", route_short_name |-> "71C",
             direction |-> "IB", headsign |-> "Wilkinsburg"]]

\* a row of feed.stop_times of the stop
StopTime(trip_id, arrival_seconds) ==
    [trip_id |-> trip_id, arrival_seconds |-> arrival_seconds]

\* the arrival dict get_scheduled_arrivals builds of a row
ScheduledRecord(row) ==
    [route_id |-> Trips[row.trip_id].route_id,
     route_short_name |-> Trips[row.trip_id].route_short_name,
     trip_id |-> row.trip_id,
     direction |-> Trips[row.trip_id].direction,
     headsign |-> Trips[row.trip_id].headsign,
     arrival_time |-> row.arrival_seconds,
     type |-> "SC"]

\* GTFSManager.get_scheduled_arrivals: the rows of the stop that arrive in
\* [now, now + window_minutes], in the order of the table
GetScheduledArrivals(stop_times, now_, window_minutes) ==
    LET current_time_seconds == now_
        window_end_seconds == current_time_seconds
                                + window_minutes * SecondsPerMinute
        upcoming == SelectSeq(stop_times,
                      LAMBDA row : /\ row.arrival_seconds >= current_time_seconds
                                   /\ row.arrival_seconds <= window_end_seconds)
    IN  [i \in 1..Len(upcoming) |-> ScheduledRecord(upcoming[i])]

\* a stop_time_update of the realtime feed for the stop; route_id is "None"
\* when the trip descriptor has no route_id field
Update(trip_id, route_id, arrival) ==
    [trip_id |-> trip_id, route_id |-> route_id, arrival_time |-> arrival]

\* what the realtime endpoint does on a call: failure is "none", or the
\* request fails ("network", "timeout", "http"), or the body does not parse
\* ("decode"), or a timestamp of an update is out of range ("timestamp",
\* raised by the loop after the updates before it were gathered)
Feed(failure, updates) == [failure |-> failure, updates |-> updates]

\* a slip of the except branches: the arrivals gathered so far are returned
GetRealtimeArrivalsGathered(feed) ==
    IF feed.failure \in {"network", "timeout", "http", "decode"} THEN <<>>
    ELSE [i \in 1..Len(feed.updates) |->
            [trip_id |-> feed.updates[i].trip_id,
             route_id |-> feed.updates[i].route_id,
             arrival_time |-> feed.updates[i].arrival_time,
             type |-> "TT"]]

\* GTFSManager.get_realtime_arrivals
GetRealtimeArrivals(feed) ==
    IF feed.failure # "none" THEN <<>>
    ELSE [i \in 1..Len(feed.updates) |->
            [trip_id |-> feed.updates[i].trip_id,
             route_id |-> feed.updates[i].route_id,
             arrival_time |-> feed.updates[i].arrival_time,
             type |-> "TT"]]

\* the trip ids of a list of arrivals
TripIds(arrivals) == {arrivals[i].trip_id : i \in 1..Len(arrivals)}

\* realtime_map[trip_id]: a dict comprehension keeps the last arrival of a key
RealtimeMap(realtime, trip_id) ==
    LET last == CHOOSE i \in 1..Len(realtime) :
                    /\ realtime[i].trip_id = trip_id
                    /\ \A j \in (i + 1)..Len(realtime) :
                           realtime[j].trip_id # trip_id
    IN  realtime[last]

\* the record built of a scheduled arrival and the realtime one of its trip
Overlay(arrival, rt) ==
    [route_short_name |-> arrival.route_short_name,
     route_id |-> arrival.route_id,
     direction |-> arrival.direction,
     headsign |-> arrival.headsign,
     arrival_time |-> rt.arrival_time,
     type |-> "TT",
     trip_id |-> arrival.trip_id]

\* a slip of the first loop: the scheduled time is kept
MergeScheduledKeepsTime(scheduled, realtime) ==
    [i \in 1..Len(scheduled) |->
        IF scheduled[i].trip_id \in TripIds(realtime)
        THEN [scheduled[i] EXCEPT !.type = "TT"]
        ELSE scheduled[i]]

\* get_merged_arrivals: the loop over the scheduled arrivals
MergeScheduled(scheduled, realtime) ==
    [i \in 1..Len(scheduled) |->
        IF scheduled[i].trip_id \in TripIds(realtime)
        THEN Overlay(scheduled[i], RealtimeMap(realtime, scheduled[i].trip_id))
        ELSE scheduled[i]]

\* GTFSManager._get_trip_info: the dict of a trip of the static feed, the
\* empty dict of a trip that is not in feed.trips, or an exception (for the
\* trips of broken, whose rows cannot be read)
GetTripInfo(trip_id, broken) ==
    IF trip_id \in broken THEN [kind |-> "raise"]
    ELSE IF trip_id \notin DOMAIN Trips THEN [kind |-> "empty"]
    ELSE [kind |-> "found",
          route_short_name |-> Trips[trip_id].route_short_name,
          direction |-> Trips[trip_id].direction,
          headsign |-> Trips[trip_id].headsign]

\* the record built of a realtime arrival and its trip_info; rt always has
\* the key "route_id", so rt.get("route_id", "?") is its value
Synthesized(rt, trip_info) ==
    [route_short_name |-> IF trip_info.kind = "found"
                          THEN trip_info.route_short_name ELSE rt.route_id,
     route_id |-> rt.route_id,
     direction |-> IF trip_info.kind = "found" THEN trip_info.direction ELSE "",
     headsign |-> IF trip_info.kind = "found" THEN trip_info.headsign ELSE "",
     arrival_time |-> rt.arrival_time,
     type |-> "TT",
     trip_id |-> rt.trip_id]

\* get_merged_arrivals: the loop over the realtime arrivals, which adds
\* those of the trips that are not among the scheduled arrivals
AddRealtimeOnly(realtime, scheduled_trip_ids, broken) ==
    Concat([i \in 1..Len(realtime) |->
              IF realtime[i].trip_id \in scheduled_trip_ids THEN <<>>
              ELSE LET trip_info == GetTripInfo(realtime[i].trip_id, broken)
                   IN  IF trip_info.kind = "raise" THEN <<>>
                       ELSE <<Synthesized(realtime[i], trip_info)>>])

\* a slip of the filter: arrivals that are past are kept
FilterWindowKeepsPast(merged, now_, window_minutes) ==
    LET cutoff == now_ + window_minutes * SecondsPerMinute
    IN  SelectSeq(merged, LAMBDA a : a.arrival_time <= cutoff)

\* get_merged_arrivals: the filter to [now, now + window_minutes]
FilterWindow(merged, now_, window_minutes) ==
    LET cutoff == now_ + window_minutes * SecondsPerMinute
    IN  SelectSeq(merged, LAMBDA a : now_ <= a.arrival_time
                                     /\ a.arrival_time <= cutoff)

\* list.sort puts an element behind those that are not greater (it is stable)
InsertByArrival(a, sorted) ==
    LET before == SelectSeq(sorted, LAMBDA x : x.arrival_time <= a.arrival_time)
        after == SelectSeq(sorted, LAMBDA x : x.arrival_time > a.arrival_time)
    IN  before \o <<a>> \o after

\* a slip of the sort: the list is left in the order of the merge
SortByArrivalOmitted(merged) == merged

RECURSIVE SortByArrival(_)
\* merged.sort(key=lambda x: x['arrival_time'])
SortByArrival(merged) ==
    IF merged = <<>> THEN <<>>
    ELSE InsertByArrival(merged[Len(merged)],
                         SortByArrival(SubSeq(merged, 1, Len(merged) - 1)))

\* Python's int(a / b) of integers a and b > 0: the quotient cut towards 0
IntOfQuotient(a, b) == IF a >= 0 THEN a \div b ELSE 0 - ((0 - a) \div b)

\* a slip of the conversion: the minutes are rounded to the nearest
MinutesUntilRounded(arrival_time, now_) ==
    LET minutes == IntOfQuotient(2 * (arrival_time - now_) + SecondsPerMinute,
                                 2 * SecondsPerMinute)
    IN  IF minutes > 0 THEN minutes ELSE 0

\* get_merged_arrivals: max(0, int((arrival_time - now).total_seconds() / 60))
MinutesUntil(arrival_time, now_) ==
    LET minutes == IntOfQuotient(arrival_time - now_, SecondsPerMinute)
    IN  IF minutes > 0 THEN minutes ELSE 0

\* the arrival dict with its minutes_until key
WithMinutes(a, now_) ==
    [route_short_name |-> a.route_short_name, route_id |-> a.route_id,
     direction |-> a.direction, headsign |-> a.headsign,
     arrival_time |-> a.arrival_time, type |-> a.type, trip_id |-> a.trip_id,
     minutes_until |-> MinutesUntil(a.arrival_time, now_)]

\* GTFSManager.get_merged_arrivals.  a.now is the clock get_scheduled_arrivals
\* reads and a.now + a.delay the one the filter reads after the realtime
\* request; the lists of the stages are kept beside the result.
GetMergedArrivals(a) ==
    LET scheduled == GetScheduledArrivals(a.stop_times, a.now, a.window_minutes)
        realtime == GetRealtimeArrivals(a.feed)
        merged == MergeScheduled(scheduled, realtime)
                    \o AddRealtimeOnly(realtime, TripIds(scheduled), a.broken)
        now_ == a.now + a.delay
        sorted == SortByArrival(FilterWindow(merged, now_, a.window_minutes))
    IN  [scheduled |-> scheduled,
         realtime |-> realtime,
         merged |-> merged,
         now |-> now_,
         result |-> [i \in 1..Len(sorted) |-> WithMinutes(sorted[i], now_)]]

\* the stop_times rows of the stop: three trips out of order, a trip that
\* serves the stop twice, no row at all
StopTimesChoices ==
    {<<StopTime("T1", 130), StopTime("T2", 160), StopTime("T3", 103)>>,
     <<StopTime("T2", 150), StopTime("T1", 100), StopTime("T1", 220)>>,
     <<>>}

\* the realtime feeds: empty; an update of a scheduled trip and one of a
\* trip the static feed does not know; updates in the past, of a trip that
\* only runs in realtime, and beyond the window; two updates of one trip;
\* and the failures
FeedChoices ==
    {Feed("none", <<>>),
     Feed("none", <<Update("T1", "R67", 140), Update("T9", "R99", 150)>>),
     Feed("none", <<Update("T3", "None", 90), Update("T4", "R71", 120),
                    Update("T1", "R67", 400)>>),
     Feed("none", <<Update("T1", "R67", 135), Update("T1", "R67", 155),
                    Update("T5", "R71", 110)>>),
     Feed("network", <<>>),
     Feed("decode", <<>>),
     Feed("timestamp", <<Update("T1", "R67", 140)>>)}

\* the trips whose rows _get_trip_info cannot read
BrokenChoices == {{}, {"T5"}}

\* the clock values get_scheduled_arrivals reads
MergeTimes == {100, 130}

MergeInit ==
    /\ SchedIdle
    /\ CacheIdle
    /\ GtfsIdle
    /\ args \in [stop_times : StopTimesChoices, feed : FeedChoices,
                  broken : BrokenChoices, now : MergeTimes,
                  delay : {0, MaxDelay},
                  window_minutes : 1..MaxWindowMinutes]
    /\ out = <<>>

\* one call get_merged_arrivals(stop_id, window_minutes)
CallGetMergedArrivals ==
    /\ out = <<>>
    /\ out' = <<GetMergedArrivals(args)>>
    /\ UNCHANGED <<schedVars, args, cacheVars, gtfsVars>>

MergeSpec == MergeInit /\ [][CallGetMergedArrivals]_vars

\* a returned record without its minutes_until key
Arrival(r) ==
    [route_short_name |-> r.route_short_name, route_id |-> r.route_id,
     direction |-> r.direction, headsign |-> r.headsign,
     arrival_time |-> r.arrival_time, type |-> r.type, trip_id |-> r.trip_id]

\* the arrival time lies in the window the merge filters to
InMergeWindow(t) ==
    /\ out[1].now <= t
    /\ t <= out[1].now + args.window_minutes * SecondsPerMinute

\* the records of the result that are the arrival a
Returned(a) == {k \in 1..Len(out[1].result) : Arrival(out[1].result[k]) = a}

\* the positions of the realtime list that are of the trip
UpdatesOf(trip_id) ==
    {j \in 1..Len(out[1].realtime) : out[1].realtime[j].trip_id = trip_id}

\* C15: a scheduled arrival whose trip id is in the realtime list gives a
\* record with the realtime arrival time (of the last update of the trip),
\* the scheduled route name, route id, direction and headsign, and type TT;
\* one whose trip id is not in it gives the scheduled record as it is, type
\* SC; either record is returned when its time is in the window.
C15_ScheduledOverlay ==
    out # <<>> =>
        \A i \in 1..Len(out[1].scheduled) :
            LET s == out[1].scheduled[i]
                m == out[1].merged[i]
                js == UpdatesOf(s.trip_id)
            IN  /\ js # {} =>
                       LET last == CHOOSE j \in js : \A l \in js : l <= j
                       IN  /\ m.arrival_time = out[1].realtime[last].arrival_time
                           /\ m.type = "TT"
                           /\ m.trip_id = s.trip_id
                           /\ m.route_short_name = s.route_short_name
                           /\ m.route_id = s.route_id
                           /\ m.direction = s.direction
                           /\ m.headsign = s.headsign
                /\ js = {} => (m = s /\ m.type = "SC")
                /\ InMergeWindow(m.arrival_time) <=> Returned(m) # {}

\* trip T1, scheduled at 130, is returned at the realtime 140 as TT, next to
\* the scheduled T2
C15_Witness ==
    /\ out # <<>>
    /\ \E k \in 1..Len(out[1].result) :
          /\ out[1].result[k].trip_id = "T1"
          /\ out[1].result[k].type = "TT"
          /\ out[1].result[k].arrival_time = 140
          /\ out[1].result[k].headsign = "Downtown"
    /\ \E i \in 1..Len(out[1].scheduled) :
          out[1].scheduled[i].trip_id = "T1"
          /\ out[1].scheduled[i].arrival_time = 130
    /\ \E k \in 1..Len(out[1].result) :
          out[1].result[k].trip_id = "T2" /\ out[1].result[k].type = "SC"

\* C16: a realtime arrival whose trip id is not in the scheduled list gives
\* one TT record with the trip's static metadata and the realtime time when
\* the trip is found in the static schedule, and no record when the lookup
\* fails (the trip is not found or the lookup raises); the other records
\* are merged all the same.
C16_RealtimeOnly ==
    out # <<>> =>
        /\ \A j \in 1..Len(out[1].realtime) :
              LET rt == out[1].realtime[j]
                  extra == {k \in (Len(out[1].scheduled) + 1)..Len(out[1].merged) :
                              /\ out[1].merged[k].trip_id = rt.trip_id
                              /\ out[1].merged[k].arrival_time = rt.arrival_time}
              IN  rt.trip_id \notin TripIds(out[1].scheduled) =>
                    IF rt.trip_id \in DOMAIN Trips /\ rt.trip_id \notin args.broken
                    THEN /\ Cardinality(extra) = 1
                         /\ \A k \in extra :
                              /\ out[1].merged[k].type = "TT"
                              /\ out[1].merged[k].route_short_name
                                    = Trips[rt.trip_id].route_short_name
                              /\ out[1].merged[k].direction
                                    = Trips[rt.trip_id].direction
                              /\ out[1].merged[k].headsign
                                    = Trips[rt.trip_id].headsign
                    ELSE extra = {}
        /\ Len(out[1].merged) >= Len(out[1].scheduled)

\* C17: every returned record has now <= arrival time <= now +
\* window_minutes, now being the clock value the filter of the merge read.
C17_InWindow ==
    out # <<>> =>
        \A k \in 1..Len(out[1].result) :
            /\ out[1].now <= out[1].result[k].arrival_time
            /\ out[1].result[k].arrival_time
                  <= out[1].now + args.window_minutes * SecondsPerMinute

\* a merge that dropped a past arrival and one beyond the window, and
\* returned the rest
C17_Witness ==
    /\ out # <<>>
    /\ Len(out[1].result) >= 2
    /\ \E i \in 1..Len(out[1].merged) :
          out[1].merged[i].arrival_time < out[1].now
    /\ \E i \in 1..Len(out[1].merged) :
          out[1].merged[i].arrival_time
            > out[1].now + args.window_minutes * SecondsPerMinute

\* C18: the returned list is in ascending order of arrival time, whatever
\* the mix of SC and TT records.
C18_Sorted ==
    out # <<>> =>
        \A k \in 1..(Len(out[1].result) - 1) :
            out[1].result[k].arrival_time <= out[1].result[k + 1].arrival_time

\* four records of both types returned in another order than they were
\* merged in
C18_Witness ==
    /\ out # <<>>
    /\ Len(out[1].result) = 4
    /\ {out[1].result[k].type : k \in 1..4} = {"SC", "TT"}
    /\ Arrival(out[1].result[1]) # out[1].merged[1]
    /\ out[1].result[2].arrival_time < out[1].result[3].arrival_time

\* C19: minutes_until of a returned record is floor((arrival_time - now) /
\* 60 s), not below 0: a natural number.
C19_MinutesUntil ==
    out # <<>> =>
        \A k \in 1..Len(out[1].result) :
            LET r == out[1].result[k]
                floor == (r.arrival_time - out[1].now) \div SecondsPerMinute
            IN  /\ r.minutes_until = IF floor < 0 THEN 0 ELSE floor
                /\ r.minutes_until \in Nat

\* arrivals 30 s and 60 s ahead: 0 and 1 minutes
C19_Witness ==
    /\ out # <<>>
    /\ \E k \in 1..Len(out[1].result) :
          /\ out[1].result[k].arrival_time - out[1].now = 30
          /\ out[1].result[k].minutes_until = 0
    /\ \E k \in 1..Len(out[1].result) :
          /\ out[1].result[k].arrival_time - out[1].now = 60
          /\ out[1].result[k].minutes_until = 1

\* C20: when the realtime request or the decoding of its body fails,
\* get_realtime_arrivals gives the empty list, and the merge returns the
\* scheduled arrivals that are in the window, each once and each SC.
C20_RealtimeFailure ==
    (out # <<>> /\ args.feed.failure # "none") =>
        /\ out[1].realtime = <<>>
        /\ \A k \in 1..Len(out[1].result) :
              /\ out[1].result[k].type = "SC"
              /\ \E i \in 1..Len(out[1].scheduled) :
                    Arrival(out[1].result[k]) = out[1].scheduled[i]
        /\ \A i \in 1..Len(out[1].scheduled) :
              InMergeWindow(out[1].scheduled[i].arrival_time)
                  => Returned(out[1].scheduled[i]) # {}
        /\ Len(out[1].result)
              = Cardinality({i \in 1..Len(out[1].scheduled) :
                               InMergeWindow(out[1].scheduled[i].arrival_time)})

\* the feed failed after an update of T1 was read; T1 and T2 are returned
\* as scheduled, and T3, past by the time of the filter, is not
C20_Witness ==
    /\ out # <<>>
    /\ args.feed.failure = "timestamp" /\ args.feed.updates # <<>>
    /\ Len(out[1].scheduled) = 3 /\ Len(out[1].result) = 2
    /\ \A k \in 1..2 : out[1].result[k].type = "SC"

----------------------------------------------------------------------------
(* The bus arrival provider: BusArrivalProvider.fetch_data sorts the merged *)
(* arrivals by priority, keeps the first max_arrivals and gives each its    *)
(* urgency.                                                                 *)

\* defaults of the provider configuration, and the urgency thresholds
DefaultMaxArrivals == 4
DefaultWindowMinutes == 60
UrgentBelow == 5
SoonBelow == 10

\* route in self.priority_routes
InPriority(route, priority_routes) ==
    \E i \in 1..Len(priority_routes) : priority_routes[i] = route

\* a slip of the sort key: the minutes alone
SortKeyMinutesOnly(arrival, priority_routes) == <<1, arrival.minutes_until>>

\* sort_key of _sort_by_priority
SortKey(arrival, priority_routes) ==
    IF InPriority(arrival.route_short_name, priority_routes)
    THEN <<0, arrival.minutes_until>>
    ELSE <<1, arrival.minutes_until>>

\* the order of two sort keys (tuples compare by their first difference)
KeyLeq(k1, k2) == k1[1] < k2[1] \/ (k1[1] = k2[1] /\ k1[2] <= k2[2])

\* sorted() puts an element behind those whose key is not greater
InsertByKey(a, sorted, priority_routes) ==
    LET ka == SortKey(a, priority_routes)
        before == SelectSeq(sorted,
                    LAMBDA x : KeyLeq(SortKey(x, priority_routes), ka))
        after == SelectSeq(sorted,
                    LAMBDA x : ~KeyLeq(SortKey(x, priority_routes), ka))
    IN  before \o <<a>> \o after

RECURSIVE SortByPriority(_, _)
\* BusArrivalProvider._sort_by_priority
SortByPriority(arrivals, priority_routes) ==
    IF arrivals = <<>> THEN <<>>
    ELSE InsertByKey(arrivals[Len(arrivals)],
                     SortByPriority(SubSeq(arrivals, 1, Len(arrivals) - 1),
                                    priority_routes),
                     priority_routes)

\* a slip of the first threshold: five minutes is still urgent
CalculateUrgencyInclusive(minutes) ==
    IF minutes <= UrgentBelow THEN "urgent"
    ELSE IF minutes < SoonBelow THEN "soon"
    ELSE "normal"

\* BusArrivalProvider._calculate_urgency
CalculateUrgency(minutes) ==
    IF minutes < UrgentBelow THEN "urgent"
    ELSE IF minutes < SoonBelow THEN "soon"
    ELSE "normal"

\* the arrival dict with its urgency key
WithUrgency(a) ==
    [route_short_name |-> a.route_short_name, route_id |-> a.route_id,
     direction |-> a.direction, headsign |-> a.headsign,
     arrival_time |-> a.arrival_time, type |-> a.type, trip_id |-> a.trip_id,
     minutes_until |-> a.minutes_until,
     urgency |-> CalculateUrgency(a.minutes_until)]

\* a slip of the order: the list is cut to max_arrivals before it is sorted
BusArrivalsTruncateFirst(a) ==
    LET merged == GetMergedArrivals(a).result
        first == SubSeq(merged, 1, Min(a.max_arrivals, Len(merged)))
        sorted == SortByPriority(first, a.priority_routes)
    IN  [merged |-> merged,
         sorted |-> SortByPriority(merged, a.priority_routes),
         arrivals |-> [i \in 1..Len(sorted) |-> WithUrgency(sorted[i])]]

\* the try block of BusArrivalProvider.fetch_data: the merged arrivals, the
\* list sorted by priority, and the arrivals of the DisplayData
BusArrivals(a) ==
    LET merged == GetMergedArrivals(a).result
        sorted == SortByPriority(merged, a.priority_routes)
        first == SubSeq(sorted, 1, Min(a.max_arrivals, Len(sorted)))
    IN  [merged |-> merged,
         sorted |-> sorted,
         arrivals |-> [i \in 1..Len(first) |-> WithUrgency(first[i])]]

\* the clock value of the bus provider's calls
BusNow == 100

\* a stop_times row m minutes and 20 s ahead of BusNow
Ahead(trip_id, m) == StopTime(trip_id, BusNow + m * SecondsPerMinute + 20)

\* the stop_times rows the provider is tried on: one arrival at each minute
\* 0..MaxMinutes; route 61 at 3 minutes and route 67 at 9; five arrivals of
\* four routes, two of them at the same minute; no row at all
BusStopTimes ==
    {<<Ahead("T1", m)>> : m \in 0..MaxMinutes}
    \cup {<<Ahead("T6", 3), Ahead("T1", 9)>>,
          <<Ahead("T3", 2), Ahead("T6", 4), Ahead("T1", 7), Ahead("T4", 7),
            Ahead("T2", 15)>>,
          <<>>}

\* the realtime feeds: none, and one that moves T1 to 12 minutes ahead and
\* knows a trip the static feed does not
BusFeeds ==
    {Feed("none", <<>>),
     Feed("none", <<Update("T1", "R67", BusNow + 12 * SecondsPerMinute),
                    Update("T9", "R99", BusNow + 1 * SecondsPerMinute)>>)}

PriorityChoices == {<<>>, <<"67">>, <<"69", "67">>}

BusInit ==
    /\ SchedIdle
    /\ CacheIdle
    /\ GtfsIdle
    /\ args \in [stop_times : BusStopTimes, feed : BusFeeds, broken : {{}},
                  now : {BusNow}, delay : {0},
                  window_minutes : {DefaultWindowMinutes},
                  priority_routes : PriorityChoices,
                  max_arrivals : {2, DefaultMaxArrivals}]
    /\ out = <<>>

\* one call of BusArrivalProvider.fetch_data that gets its arrivals
CallBusFetchData ==
    /\ out = <<>>
    /\ out' = <<BusArrivals(args)>>
    /\ UNCHANGED <<schedVars, args, cacheVars, gtfsVars>>

BusSpec == BusInit /\ [][CallBusFetchData]_vars

\* the arrival is of a priority route of the call
IsPriority(r) ==
    \E i \in 1..Len(args.priority_routes) :
        args.priority_routes[i] = r.route_short_name

\* C21: the list sorted by priority holds the merged arrivals, every
\* arrival of a priority route before every arrival of another route, and
\* within each of the two groups the sooner arrival first; the arrivals of
\* the result are the first max_arrivals of that list.
C21_PriorityFirst ==
    out # <<>> =>
        LET sorted == out[1].sorted
            merged == out[1].merged
        IN  /\ Len(sorted) = Len(merged)
            /\ \A i \in 1..Len(merged) :
                  Cardinality({j \in 1..Len(sorted) : sorted[j] = merged[i]})
                    = Cardinality({j \in 1..Len(merged) : merged[j] = merged[i]})
            /\ \A i \in 1..Len(sorted) : \A j \in (i + 1)..Len(sorted) :
                  /\ IsPriority(sorted[j]) => IsPriority(sorted[i])
                  /\ (IsPriority(sorted[i]) <=> IsPriority(sorted[j]))
                        => /\ sorted[i].minutes_until <= sorted[j].minutes_until
                           /\ sorted[i].arrival_time <= sorted[j].arrival_time
            /\ Len(out[1].arrivals) = Min(args.max_arrivals, Len(sorted))
            /\ \A i \in 1..Len(out[1].arrivals) :
                  /\ out[1].arrivals[i].trip_id = sorted[i].trip_id
                  /\ out[1].arrivals[i].arrival_time = sorted[i].arrival_time

\* with priority routes ["67"], route 67 at 9 minutes is listed before route
\* 61 at 3 minutes
C21_Witness ==
    /\ out # <<>>
    /\ args.priority_routes = <<"67">>
    /\ Len(out[1].arrivals) = 2
    /\ out[1].arrivals[1].route_short_name = "67"
    /\ out[1].arrivals[1].minutes_until = 9
    /\ out[1].arrivals[2].route_short_name = "61"
    /\ out[1].arrivals[2].minutes_until = 3

\* C22: every arrival of the result has urgency "urgent" when its
\* minutes_until is below 5, "soon" when it is from 5 to below 10, and
\* "normal" from 10 on.
C22_Urgency ==
    out # <<>> =>
        \A i \in 1..Len(out[1].arrivals) :
            LET a == out[1].arrivals[i]
            IN  /\ a.minutes_until < 5 => a.urgency = "urgent"
                /\ (5 <= a.minutes_until /\ a.minutes_until < 10)
                      => a.urgency = "soon"
                /\ a.minutes_until >= 10 => a.urgency = "normal"

\* arrivals at 2, 7 and 15 minutes are urgent, soon and normal
C22_Witness ==
    /\ out # <<>>
    /\ \E i, j, k \in 1..Len(out[1].arrivals) :
          /\ out[1].arrivals[i].minutes_until = 2
          /\ out[1].arrivals[i].urgency = "urgent"
          /\ out[1].arrivals[j].minutes_until = 7
          /\ out[1].arrivals[j].urgency = "soon"
          /\ out[1].arrivals[k].minutes_until = 15
          /\ out[1].arrivals[k].urgency = "normal"

----------------------------------------------------------------------------
(* The condition evaluator on its own: ConditionEvaluator(conditions) and   *)
(* one call should_run(now).                                                *)

\* the MM-DD strings of the configurations
MonthDays == {<<1, 5>>, <<1, 10>>, <<6, 1>>, <<6, 15>>, <<8, 31>>,
              <<12, 20>>, <<12, 25>>}

\* the dates should_run is called on (weekday as date.weekday(): Monday 0)
CondDates ==
    Dates \cup {[month |-> 1, day |-> 5, weekday |-> 0],
                [month |-> 1, day |-> 10, weekday |-> 5],
                [month |-> 6, day |-> 1, weekday |-> 0],
                [month |-> 8, day |-> 31, weekday |-> 0],
                [month |-> 12, day |-> 20, weekday |-> 6]}

\* values of "date_match": missing, an empty list, lists of MM-DD strings,
\* a list of a number, a number
DateMatchChoices ==
    {Absent, List(<<>>), List(<<MD(12, 25)>>), List(<<MD(6, 15), MD(1, 5)>>),
     List(<<IntEl(1225)>>), Number}

\* values of "date_range": missing, a range within the year, one around the
\* new year, lists of one and of three elements, a number for a string, a
\* number
DateRangeChoices ==
    {Absent, List(<<MD(6, 1), MD(8, 31)>>), List(<<MD(12, 20), MD(1, 10)>>),
     List(<<MD(12, 20)>>), List(<<MD(1, 5), MD(6, 1), MD(12, 20)>>),
     List(<<IntEl(1220), MD(1, 10)>>), Number}

\* every range [start, end] of two of the MM-DD strings
AllRanges ==
    {List(<<MD(a[1], a[2]), MD(b[1], b[2])>>) : a \in MonthDays, b \in MonthDays}

\* values of "day_of_week" (Sunday 0): missing, an empty list, the weekend,
\* Monday, a number
DayOfWeekChoices ==
    {Absent, List(<<>>), List(<<IntEl(0), IntEl(6)>>), List(<<IntEl(1)>>),
     Number}

\* values of "months": missing, December, June and July, a number
MonthsChoices ==
    {Absent, List(<<IntEl(12)>>), List(<<IntEl(6), IntEl(7)>>), Number}

ConditionChoices ==
    {NoConditions, NotADict}
    \cup {Conditions(dm, dr, dow, mo) :
            dm \in DateMatchChoices, dr \in DateRangeChoices,
            dow \in DayOfWeekChoices, mo \in MonthsChoices}
    \cup {Conditions(Absent, dr, Absent, Absent) : dr \in AllRanges}

CondInit ==
    /\ SchedIdle
    /\ CacheIdle
    /\ GtfsIdle
    /\ args \in [conditions : ConditionChoices, date : CondDates]
    /\ out = <<>>

\* the results of the four checks, where the evaluator gets to them
Checks(conditions, date) ==
    IF conditions.present /\ conditions.isdict
    THEN [date_match |-> CheckDateMatch(conditions, date),
          date_range |-> CheckDateRange(conditions, date),
          day_of_week |-> CheckDayOfWeek(conditions, date),
          months |-> CheckMonths(conditions, date)]
    ELSE [date_match |-> "None", date_range |-> "None",
          day_of_week |-> "None", months |-> "None"]

\* one call ConditionEvaluator(conditions).should_run(now), with the results
\* of its four checks
CallShouldRun ==
    /\ out = <<>>
    /\ out' = <<[should_run |-> ShouldRun(args.conditions, args.date)]
                 @@ Checks(args.conditions, args.date)>>
    /\ UNCHANGED <<schedVars, args, cacheVars, gtfsVars>>

CondSpec == CondInit /\ [][CallShouldRun]_vars

\* MM-DD as a number: 100 * month + day
Ordinal(el) == (el.v[1] * 10 + el.v[2]) * 100 + el.v[4] * 10 + el.v[5]
TodayOrdinal == args.date.month * 100 + args.date.day

\* a list of at least one element, each of type t
ListOf(v, t) ==
    /\ v.shape = "list" /\ v.items # <<>>
    /\ \A i \in 1..Len(v.items) : v.items[i].t = t

\* the value of a kind is missing, or the list the kind is configured by
WellFormedKind(v, t) == v.shape = "absent" \/ ListOf(v, t)

\* today is in the range [start, end], around the new year when start > end
InRange(start, end) ==
    IF start <= end
    THEN start <= TodayOrdinal /\ TodayOrdinal <= end
    ELSE TodayOrdinal >= start \/ TodayOrdinal <= end

\* the conditions of the call configure each kind well or not at all
WellFormedConditions ==
    LET c == args.conditions
    IN  /\ c.isdict
        /\ WellFormedKind(c.date_match, "str")
        /\ WellFormedKind(c.date_range, "str")
        /\ c.date_range.shape = "list" => Len(c.date_range.items) = 2
        /\ WellFormedKind(c.day_of_week, "int")
        /\ WellFormedKind(c.months, "int")

\* the configured kinds that fail on the date of the call
FailingKinds ==
    LET c == args.conditions
    IN  {k \in {"date_match", "date_range", "day_of_week", "months"} :
           \/ /\ k = "date_match" /\ c.date_match.shape = "list"
              /\ \A i \in 1..Len(c.date_match.items) :
                    Ordinal(c.date_match.items[i]) # TodayOrdinal
           \/ /\ k = "date_range" /\ c.date_range.shape = "list"
              /\ ~InRange(Ordinal(c.date_range.items[1]),
                          Ordinal(c.date_range.items[2]))
           \/ /\ k = "day_of_week" /\ c.day_of_week.shape = "list"
              /\ \A i \in 1..Len(c.day_of_week.items) :
                    c.day_of_week.items[i].v[1] # (args.date.weekday + 1) % 7
           \/ /\ k = "months" /\ c.months.shape = "list"
              /\ \A i \in 1..Len(c.months.items) :
                    c.months.items[i].v[1] # args.date.month}

\* C23: on conditions whose kinds are each missing or configured by a list
\* of its element type, should_run is false iff at least one configured
\* kind fails on the date; a kind that is not configured has no result, and
\* with no kind configured should_run is true on every date.
C23_ConjunctionOfConfigured ==
    (out # <<>> /\ WellFormedConditions) =>
        LET c == args.conditions
        IN  /\ out[1].should_run = Outcome(FailingKinds = {})
            /\ c.date_match.shape = "absent" => out[1].date_match = "None"
            /\ c.date_range.shape = "absent" => out[1].date_range = "None"
            /\ c.day_of_week.shape = "absent" => out[1].day_of_week = "None"
            /\ c.months.shape = "absent" => out[1].months = "None"
            /\ (\A k \in {c.date_match, c.date_range, c.day_of_week, c.months} :
                    k.shape = "absent") => out[1].should_run = "True"

\* date_match ["12-25"] and months [6, 7] on 06-15: the months pass, the
\* date does not match, the other two kinds are not configured, and
\* should_run is false
C23_Witness ==
    /\ out # <<>>
    /\ WellFormedConditions
    /\ args.date.month = 6 /\ args.date.day = 15
    /\ out[1].date_match = "False"
    /\ out[1].months = "True"
    /\ out[1].date_range = "None"
    /\ out[1].day_of_week = "None"
    /\ out[1].should_run = "False"

\* C24: for a date_range [start, end] of MM-DD strings the check is true
\* iff start <= today <= end when start <= end, and iff today >= start or
\* today <= end when start > end: [12-20, 01-10] is true on 12-25 and on
\* 01-05 and false on 06-15.
C24_DateRange ==
    (out # <<>> /\ args.conditions.isdict
        /\ ListOf(args.conditions.date_range, "str")
        /\ Len(args.conditions.date_range.items) = 2) =>
            out[1].date_range
                = Outcome(InRange(Ordinal(args.conditions.date_range.items[1]),
                                  Ordinal(args.conditions.date_range.items[2])))

\* the range [12-20, 01-10] on 01-05
C24_Witness ==
    /\ out # <<>>
    /\ args.conditions = Conditions(Absent, List(<<MD(12, 20), MD(1, 10)>>),
                                    Absent, Absent)
    /\ args.date.month = 1 /\ args.date.day = 5
    /\ out[1].date_range = "True"
    /\ out[1].should_run = "True"

\* C25: for a configured date_match list of MM-DD strings, the empty list
\* included, the date_match check is true iff today's MM-DD is in the list,
\* and should_run is false on a date that is not in it (the other kinds
\* being well formed).
C25_DateMatch ==
    LET c == args.conditions
        covered ==
            /\ out # <<>>
            /\ c.present /\ c.isdict
            /\ c.date_match.shape = "list"
            /\ \A i \in 1..Len(c.date_match.items) : c.date_match.items[i].t = "str"
            /\ WellFormedKind(c.date_range, "str")
            /\ c.date_range.shape = "list" => Len(c.date_range.items) = 2
            /\ WellFormedKind(c.day_of_week, "int")
            /\ WellFormedKind(c.months, "int")
        member == \E i \in 1..Len(c.date_match.items) :
                      Ordinal(c.date_match.items[i]) = TodayOrdinal
    IN  covered => /\ out[1].date_match = Outcome(member)
                   /\ ~member => out[1].should_run = "False"

\* C26: should_run never raises, and a kind whose value is malformed (the
\* others missing) leaves should_run true.
C26_NeverRaises ==
    out # <<>> =>
        /\ out[1].should_run \in {"True", "False"}
        /\ (\E v \in {Number, List(<<IntEl(1225)>>),
                       List(<<IntEl(1220), MD(1, 10)>>), List(<<MD(12, 20)>>)} :
               args.conditions \in {Conditions(v, Absent, Absent, Absent),
                                    Conditions(Absent, v, Absent, Absent),
                                    Conditions(Absent, Absent, v, Absent),
                                    Conditions(Absent, Absent, Absent, v)})
              => out[1].should_run = "True"

----------------------------------------------------------------------------
(* The providers' fetch_data against a failing source, and the display     *)
(* step on what they return.                                                *)

\* the suggested_display_duration of the providers' DisplayData
SuggestedSeconds == 30
NoImagesSeconds == 10
LoadFailedSeconds == 5

\* a DisplayData: its content type, whether the content has "error": True,
\* and the suggested_display_duration of its metadata
DisplayData(type, error, suggested) ==
    [kind |-> "data", type |-> type, error |-> error, metadata |-> <<suggested>>,
     exception |-> "none"]

\* the call ends in an exception of the class
Raises(exception) ==
    [kind |-> "raised", type |-> "none", error |-> FALSE, metadata |-> <<>>,
     exception |-> exception]

\* issubclass(c, base) among the exception classes of the fetches
IsA(c, base) ==
    \/ c = base
    \/ base = "Exception"
    \/ base = "RequestException" /\ c \in {"Timeout", "HTTPError", "JSONDecodeError"}
    \/ base = "ValueError" /\ c = "JSONDecodeError"

\* an except clause with the tuple of classes catches the exception
Catches(handlers, c) == \E h \in handlers : IsA(c, h)

\* what the weather endpoints do on a call: answer well; time out; answer
\* with an HTTP error status; with a body that is no JSON; with JSON that
\* lacks a key; with a sunrise that is no ISO timestamp; with null for a
\* number; with an empty list; with a JSON array; or the air quality
\* endpoint times out
WeatherSources ==
    {"ok", "timeout", "http_error", "not_json", "missing_key", "bad_timestamp",
     "null_number", "empty_list", "json_array", "aqi_timeout"}

\* the exception the try block of WeatherProvider.fetch_data raises
WeatherRaises(source) ==
    CASE source = "timeout" -> "Timeout"
      [] source = "http_error" -> "HTTPError"
      [] source = "not_json" -> "JSONDecodeError"
      [] source = "missing_key" -> "KeyError"
      [] source = "bad_timestamp" -> "ValueError"
      [] source = "null_number" -> "TypeError"
      [] source = "empty_list" -> "IndexError"
      [] source = "json_array" -> "TypeError"
      [] OTHER -> "none"

\* WeatherProvider.fetch_data
WeatherFetchData(source) ==
    LET raised == WeatherRaises(source)
    IN  IF raised = "none" THEN DisplayData("weather", FALSE, SuggestedSeconds)
        ELSE IF Catches({"RequestException", "KeyError", "ValueError"}, raised)
        THEN DisplayData("weather", TRUE, SuggestedSeconds)
        ELSE Raises(raised)

\* what the transit feeds do on a call: answer well; the realtime request
\* times out or its body does not decode; the download of the static
\* schedule fails; the downloaded file is no ZIP
BusSources ==
    {"ok", "realtime_timeout", "realtime_garbage", "download_failed", "bad_zip"}

\* the exception get_merged_arrivals raises (get_realtime_arrivals returns
\* [] on its failures; _load_static_feed lets its own pass)
BusRaises(source) ==
    CASE source = "download_failed" -> "HTTPError"
      [] source = "bad_zip" -> "BadZipFile"
      [] OTHER -> "none"

\* BusArrivalProvider.fetch_data
BusFetchData(source) ==
    LET raised == BusRaises(source)
    IN  IF raised = "none" THEN DisplayData("bus_arrivals", FALSE, SuggestedSeconds)
        ELSE IF Catches({"Exception"}, raised)
        THEN DisplayData("bus_arrivals", TRUE, SuggestedSeconds)
        ELSE Raises(raised)

\* what the bucket does on a call: lists and serves an image; the listing
\* fails; the bucket has no image; get_object fails; the object is no image
S3Sources == {"ok", "list_failed", "empty_bucket", "get_failed", "not_an_image"}

\* a slip of the error metadata: the duration of an image for every result
S3FetchDataUniform(source) ==
    DisplayData("s3_image", source # "ok", SuggestedSeconds)

\* S3ImageProvider.fetch_data (_refresh_image_list leaves no keys when the
\* listing fails, _fetch_image_from_s3 returns None when it cannot load)
S3FetchData(source) ==
    IF source \in {"list_failed", "empty_bucket"}
    THEN DisplayData("s3_image", TRUE, NoImagesSeconds)
    ELSE IF source \in {"get_failed", "not_an_image"}
    THEN DisplayData("s3_image", TRUE, LoadFailedSeconds)
    ELSE DisplayData("s3_image", FALSE, SuggestedSeconds)

\* TimeProvider.fetch_data reads the clock only
TimeFetchData == DisplayData("time", FALSE, SuggestedSeconds)

\* the sources of each provider class
SourcesOf(provider) ==
    CASE provider = "weather" -> WeatherSources
      [] provider = "bus" -> BusSources
      [] provider = "s3_image" -> S3Sources
      [] OTHER -> {"ok"}

\* provider.get_data() with nothing cached: fetch_data, its exception passed on
ProviderGetData(provider, source) ==
    CASE provider = "weather" -> WeatherFetchData(source)
      [] provider = "bus" -> BusFetchData(source)
      [] provider = "s3_image" -> S3FetchData(source)
      [] OTHER -> TimeFetchData

\* BaseScheduler._display_provider on an initialized provider: the data is
\* rendered (in debug mode to ASCII, otherwise to a bitmap that is posted)
\* and held for the display duration; an exception of get_data is caught,
\* and the step pauses instead
DisplayProviderStep(a) ==
    LET data_ == ProviderGetData(a.provider, a.source)
    IN  IF data_.kind = "raised"
        THEN [result |-> data_, rendered |-> FALSE, renderer |-> "none",
              duration |-> 0, pause |-> BackoffSeconds, returns |-> FALSE]
        ELSE [result |-> data_, rendered |-> TRUE,
              renderer |-> IF a.debug THEN "ascii" ELSE "bitmap",
              duration |-> GetDisplayDuration(data_.metadata, a.override # <<>>,
                              IF a.override # <<>> THEN a.override[1] ELSE 0),
              pause |-> 0, returns |-> TRUE]

ProviderInit ==
    /\ SchedIdle
    /\ CacheIdle
    /\ GtfsIdle
    /\ \E p \in {"time", "weather", "bus", "s3_image"} :
          args \in [provider : {p}, source : SourcesOf(p),
                    override : {<<>>, <<HoldA>>, <<HoldB>>}, debug : BOOLEAN]
    /\ out = <<>>

\* one call of _display_provider
CallDisplayProvider ==
    /\ out = <<>>
    /\ out' = <<DisplayProviderStep(args)>>
    /\ UNCHANGED <<schedVars, args, cacheVars, gtfsVars>>

ProviderSpec == ProviderInit /\ [][CallDisplayProvider]_vars

\* C27: whatever the source of a provider does (time out, answer with an
\* HTTP error or a malformed payload of any shape, fail to download the
\* static schedule), get_data returns a DisplayData and does not raise, and
\* the display step shows it.
C27_SourceErrorRecovered ==
    out # <<>> =>
        /\ out[1].result.kind = "data"
        /\ out[1].rendered

\* C28 as stated: error-shaped data is rendered and held as long as the
\* provider's successful data is: for the override of the rotation entry,
\* and without one for the 30 s every provider suggests with its data.
C28_ErrorHeldForNormalDuration ==
    (out # <<>> /\ out[1].result.kind = "data" /\ out[1].result.error) =>
        /\ out[1].rendered
        /\ out[1].duration
              = IF args.override # <<>> THEN args.override[1] ELSE 30

\* C28: error-shaped data is rendered and held for the override of the
\* rotation entry when there is one, and otherwise for the duration its own
\* metadata suggests: 30 s for weather and bus arrivals, 10 s for an S3
\* bucket without images and 5 s for an S3 image that failed to load.
C28_ErrorHeld ==
    (out # <<>> /\ out[1].result.kind = "data" /\ out[1].result.error) =>
        /\ out[1].rendered
        /\ out[1].returns
        /\ out[1].duration > 0
        /\ out[1].duration
              = IF args.override # <<>> THEN args.override[1]
                ELSE IF args.provider # "s3_image" THEN 30
                ELSE IF args.source \in {"list_failed", "empty_bucket"} THEN 10
                ELSE 5

\* an empty bucket, no override: the error is held for 10 s
C28_Witness ==
    /\ out # <<>>
    /\ args.provider = "s3_image" /\ args.source = "empty_bucket"
    /\ args.override = <<>>
    /\ out[1].result.error
    /\ out[1].rendered
    /\ out[1].duration = 10

----------------------------------------------------------------------------
(* Malformed time windows and provider conditions in the scheduling loop *)

\* both times of the window of rotation i are "HH:MM" texts
Parseable(i) ==
    rotations[i].start.kind # "junk" /\ rotations[i].end.kind # "junk"

\* C29: a window whose start or end is no parseable HH:MM text is never
\* taken as the active window, and the rotation taken is the first of the
\* other windows that matches on time and conditions, the fallback when
\* none of them does.
C29_UnparseableWindowSkipped ==
    [][(mode = Windowed /\ pc = "cycle" /\ pc' \in {"rot_loop", "blank_loop"})
         => /\ active' \in 0..Len(rotations)
            /\ active' > 0 => (Parseable(active') /\ WindowQualifies(active'))
            /\ \A j \in 1..Len(rotations) :
                  (active' = 0 \/ j < active')
                      => ~(Parseable(j) /\ WindowQualifies(j))]_vars

----------------------------------------------------------------------------
(* The merge and the bus provider once more: the realtime time decides the  *)
(* window filter, and the provider truncates the sorted list.               *)

\* C39: a scheduled trip with a realtime arrival outside [now, now + window]
\* is in no record of the result, although its scheduled time is in the
\* window of get_scheduled_arrivals; and the records of one trip id in a
\* result are all SC or all TT.
C39_RealtimeReplacesSchedule ==
    out # <<>> =>
        /\ \A i \in 1..Len(out[1].scheduled) :
              LET s == out[1].scheduled[i]
                  js == UpdatesOf(s.trip_id)
              IN  js # {} =>
                    LET last == CHOOSE j \in js : \A l \in js : l <= j
                    IN  ~InMergeWindow(out[1].realtime[last].arrival_time)
                          => \A k \in 1..Len(out[1].result) :
                                out[1].result[k].trip_id # s.trip_id
        /\ \A k, l \in 1..Len(out[1].result) :
              out[1].result[k].trip_id = out[1].result[l].trip_id
                  => out[1].result[k].type = out[1].result[l].type

\* T1 is scheduled at 130, in the window, and predicted at 400, beyond it:
\* the result has other records and none of T1
C39_Witness ==
    /\ out # <<>>
    /\ \E i \in 1..Len(out[1].scheduled) :
          /\ out[1].scheduled[i].trip_id = "T1"
          /\ out[1].scheduled[i].arrival_time = 130
          /\ InMergeWindow(130)
    /\ \E j \in 1..Len(out[1].realtime) :
          /\ out[1].realtime[j].trip_id = "T1"
          /\ out[1].realtime[j].arrival_time = 400
    /\ out[1].result # <<>>
    /\ \A k \in 1..Len(out[1].result) : out[1].result[k].trip_id # "T1"

\* C40: fetch_data returns at most max_arrivals arrivals, the first
\* max_arrivals of the list sorted by priority: an arrival of another route
\* is returned only when every merged arrival of a priority route is.
C40_TruncatedAfterSort ==
    out # <<>> =>
        LET arrivals == out[1].arrivals
            returned == {arrivals[i].trip_id : i \in 1..Len(arrivals)}
        IN  /\ Len(arrivals) <= args.max_arrivals
            /\ Len(arrivals) = Min(args.max_arrivals, Len(out[1].merged))
            /\ \A i \in 1..Len(arrivals) :
                  /\ arrivals[i].trip_id = out[1].sorted[i].trip_id
                  /\ arrivals[i].arrival_time = out[1].sorted[i].arrival_time
            /\ (\E i \in 1..Len(arrivals) : ~IsPriority(arrivals[i]))
                  => \A j \in 1..Len(out[1].merged) :
                        IsPriority(out[1].merged[j])
                            => out[1].merged[j].trip_id \in returned

\* five merged arrivals, max_arrivals 2, priority route 67: the two
\* arrivals of route 67, at 7 and 15 minutes, are returned and the sooner
\* arrivals of the other routes are not
C40_Witness ==
    /\ out # <<>>
    /\ args.max_arrivals = 2 /\ args.priority_routes = <<"67">>
    /\ Len(out[1].merged) = 5
    /\ Len(out[1].arrivals) = 2
    /\ out[1].merged[1].minutes_until = 2
    /\ out[1].arrivals[1].minutes_until = 7
    /\ out[1].arrivals[2].minutes_until = 15
    /\ \A i \in 1..2 : out[1].arrivals[i].route_short_name = "67"

----------------------------------------------------------------------------
(* The TTL cache once more: error-shaped data *)

\* C37: a provider that caches stores the error-shaped DisplayData of a
\* fetch like any other: a call get_data(force_refresh=False) that finds it
\* unexpired returns that object and does not invoke fetch_data, and so
\* does the call that follows the failed fetch within the cache duration.
C37_ErrorDataCached ==
    /\ [][(provider_pc = "fetching" /\ provider_pc' = "idle"
             /\ got'.kind = "data" /\ got'.id \in errors' /\ cache_duration > 0)
            => (/\ cache' = <<got'.id>>
                /\ cache_expires' = <<call.now + cache_duration>>)]_vars
    /\ [][(CallBegins /\ ~call'.force_refresh /\ LiveEntry
             /\ cache[1] \in errors)
            => (/\ got' = Data(cache[1])
                /\ fetches' = fetches
                /\ provider_pc' = "idle")]_vars
    /\ [][(/\ CallBegins /\ ~call'.force_refresh
           /\ call.fetch = "ok" /\ got.kind = "data" /\ got.id \in errors
           /\ cache_duration > 0 /\ cache # <<>>
           /\ clock < call.now + cache_duration)
            => (got' = got /\ fetches' = fetches)]_vars

\* the second call, one second after a fetch that gave error-shaped data,
\* was given that object
C37_Witness ==
    /\ call.n = 2 /\ ~call.force_refresh /\ call.fetch = "none"
    /\ got = Data(1) /\ 1 \in errors /\ fetches = 1
    /\ clock = 1 /\ cache = <<1>>

(***************************************************************************)
(* The GTFS manager: the registry of managers and the pickle cache of the  *)
(* static feed                                                             *)
(***************************************************************************)

\* the days the clock runs to, and the downloads of a run
MaxDays == 4
MaxDownloads == 2

\* cache_days * 86400
SecondsPerDay == 86400

\* the (static_url, realtime_url) pairs managers are asked for
UrlPairs == {"P", "Q"}

\* cache_dir of get_gtfs_manager: None or a directory
NoDir == "None"
DefaultDir == "/app/cache/gtfs"
AltDir == "/alt"

\* the cache_dir and cache_days managers are asked for with
ManagerArgs ==
    {[cache_dir |-> NoDir, cache_days |-> 1],
     [cache_dir |-> AltDir, cache_days |-> 2]}

\* GTFSManager.__init__: the cache directory defaults to one place for every
\* manager; the feed is loaded lazily. number tells the instances apart;
\* origin is the expiry of the cache file the feed in memory was read from
\* or written to (0: the feed is in no file)
GTFSManager(pair, cache_dir, cache_days, number) ==
    [pair |-> pair,
     cache_dir |-> IF cache_dir = NoDir THEN DefaultDir ELSE cache_dir,
     cache_days |-> cache_days,
     feed |-> NoFeed,
     origin |-> 0,
     number |-> number]

\* key not in _manager_instances
IsNew(key) == key \notin DOMAIN manager_instances

\* a slip of get_gtfs_manager: an instance per call
GetGtfsManagerAlwaysCreates ==
    \E key \in UrlPairs, a \in ManagerArgs :
        LET number == Cardinality(DOMAIN manager_instances) + 1
            made == GTFSManager(key, a.cache_dir, a.cache_days, number)
        IN  /\ manager_instances' =
                   [k \in DOMAIN manager_instances \cup {key} |->
                       IF k = key THEN made ELSE manager_instances[k]]
            /\ op' = GtfsCall("get", key, FALSE, FALSE, NoFile, FALSE, FALSE,
                              NoFeed, manager_instances'[key].number, FALSE, a)
            /\ UNCHANGED <<files, unixtime, downloads>>
            /\ UNCHANGED <<schedVars, args, out, cacheVars>>

\* get_gtfs_manager(static_url, realtime_url, cache_dir, cache_days)
GetGtfsManager ==
    \E key \in UrlPairs, a \in ManagerArgs :
        LET number == Cardinality(DOMAIN manager_instances) + 1
            made == GTFSManager(key, a.cache_dir, a.cache_days, number)
        IN  /\ manager_instances' =
                   IF IsNew(key)
                   THEN [k \in DOMAIN manager_instances \cup {key} |->
                            IF k = key THEN made ELSE manager_instances[k]]
                   ELSE manager_instances
            /\ op' = GtfsCall("get", key, FALSE, FALSE, NoFile, FALSE, FALSE,
                              NoFeed, manager_instances'[key].number, FALSE, a)
            /\ UNCHANGED <<files, unixtime, downloads>>
            /\ UNCHANGED <<schedVars, args, out, cacheVars>>

\* the test of _get_pickle_path negated: not (time.time() < expiration)
Expired(f, t) == ~(t < f.expires)

\* os.listdir gives the files in arbitrary order. _get_pickle_path stops at
\* the first unexpired file of the listing, so what a listing decides is
\* which unexpired file comes first and which files come before it; with no
\* unexpired file the loop passes over every file
Listings(listed, t) ==
    LET live == {f \in listed : ~Expired(f, t)}
        dead == listed \ live
    IN  IF live = {}
        THEN {[first |-> NoFile, before |-> dead]}
        ELSE {[first |-> f, before |-> b] : f \in live, b \in SUBSET dead}

\* a slip of _get_pickle_path: expired files are passed over, not removed
GetPicklePathKeepsExpired(listing, t) ==
    [path |-> listing.first, removed |-> {}]

\* _get_pickle_path: the path it returns and the files it removed; an
\* os.remove that raises OSError is logged and the file stays
GetPicklePath(listing, t) ==
    [path |-> listing.first,
     removed |-> {f \in listing.before : Expired(f, t) /\ f.removable}]

\* _save_pickle: the file is named after the expiry alone, so it replaces a
\* file of the same expiry in the directory; outcome "raises": open fails
\* and nothing is written
SavePickle(fs, m, t, feed, outcome) ==
    LET expiration_timestamp == t + m.cache_days * SecondsPerDay
        same == {f \in fs : f.dir = m.cache_dir
                              /\ f.expires = expiration_timestamp}
    IN  IF outcome = "raises" \/ \E f \in same : ~f.removable
        THEN [files |-> fs, expires |-> 0, ok |-> FALSE]
        ELSE [files |-> (fs \ same) \cup
                          {PickleFile(m.cache_dir, expiration_timestamp, feed,
                                      FALSE, TRUE)},
              expires |-> expiration_timestamp,
              ok |-> TRUE]

\* what a _load_static_feed call leaves: the manager, the files, the call
Loaded(m, fs, c) == [manager |-> m, files |-> fs, op |-> c]

\* a slip of _load_static_feed: the feed in memory is not looked at
HasFeedNever(m, force_refresh) == FALSE

\* line 222: not force_refresh and self.feed is not None
HasFeed(m, force_refresh) == ~force_refresh /\ m.feed # NoFeed

\* a slip of _load_static_feed: an exception of _save_pickle leaves the call
SaveFailureUncaught(saved) == ~saved.ok

\* lines 262-265: _save_pickle is called in a try whose except Exception
\* branch logs, so no exception of it leaves the call
SaveFailurePropagates(saved) == FALSE

\* _load_static_feed(force_refresh) of manager m at time t, the v-th
\* download being the next one, with the listing os.listdir gives, the
\* outcome of the download ("ok", "raises") and that of _save_pickle
LoadStaticFeed(m, fs, t, v, force_refresh, listing, download, save) ==
    IF HasFeed(m, force_refresh)
    THEN Loaded(m, fs,
                GtfsCall("load", m.pair, force_refresh, FALSE, NoFile, FALSE,
                         FALSE, m.feed, m.number, FALSE, NoArgs))
    ELSE
    LET look == IF force_refresh
                THEN [path |-> NoFile, removed |-> {}]
                ELSE GetPicklePath(listing, t)
        fs1 == fs \ look.removed
        fresh == StaticFeed(m.pair, v)
        saved == SavePickle(fs1, m, t, fresh, save)
    IN  IF look.path # NoFile /\ ~look.path.corrupt
        THEN Loaded([m EXCEPT !.feed = look.path.feed,
                              !.origin = look.path.expires],
                    fs1,
                    GtfsCall("load", m.pair, force_refresh, TRUE, look.path,
                             FALSE, FALSE, look.path.feed, m.number, FALSE,
                             NoArgs))
        ELSE IF download = "raises"
        THEN Loaded(m, fs1,
                    GtfsCall("load", m.pair, force_refresh, ~force_refresh,
                             look.path, FALSE, FALSE, NoFeed, m.number, TRUE,
                             NoArgs))
        ELSE IF SaveFailurePropagates(saved)
        THEN Loaded([m EXCEPT !.feed = fresh, !.origin = 0], saved.files,
                    GtfsCall("load", m.pair, force_refresh, ~force_refresh,
                             look.path, TRUE, FALSE, NoFeed, m.number, TRUE,
                             NoArgs))
        ELSE Loaded([m EXCEPT !.feed = fresh, !.origin = saved.expires],
                    saved.files,
                    GtfsCall("load", m.pair, force_refresh, ~force_refresh,
                             look.path, TRUE, saved.ok, fresh, m.number,
                             FALSE, NoArgs))

\* the directories the process finds at its start, left by earlier
\* processes: empty; an expired file; an expired file that cannot be
\* removed; an unexpired file; an unexpired file that does not load
StartTime == 2 * SecondsPerDay
FoundDirectories ==
    {{},
     {PickleFile(DefaultDir, SecondsPerDay, StaticFeed("P", 0), FALSE, TRUE)},
     {PickleFile(DefaultDir, StartTime, StaticFeed("P", 0), FALSE, FALSE)},
     {PickleFile(DefaultDir, 3 * SecondsPerDay, StaticFeed("Q", 0), FALSE,
                 TRUE)},
     {PickleFile(DefaultDir, 4 * SecondsPerDay, StaticFeed("P", 0), TRUE,
                 TRUE)}}

GtfsInit ==
    /\ SchedIdle
    /\ PureIdle
    /\ CacheIdle
    /\ manager_instances = <<>>
    /\ files \in FoundDirectories
    /\ unixtime = StartTime
    /\ downloads = 0
    /\ op = NoCall

\* a caller of the manager loads the static feed: get_scheduled_arrivals
\* and get_merged_arrivals call _load_static_feed() first
CallLoadStaticFeed ==
    \E key \in DOMAIN manager_instances, force_refresh \in BOOLEAN,
       download \in {"ok", "raises"}, save \in {"ok", "raises"} :
        LET m == manager_instances[key]
            listed == {f \in files : f.dir = m.cache_dir}
        IN  \E listing \in Listings(listed, unixtime) :
            LET r == LoadStaticFeed(m, files, unixtime, downloads + 1,
                                    force_refresh, listing, download, save)
            IN  /\ r.op.downloaded => downloads < MaxDownloads
                /\ manager_instances' =
                       [manager_instances EXCEPT ![key] = r.manager]
                /\ files' = r.files
                /\ downloads' = IF r.op.downloaded THEN downloads + 1
                                ELSE downloads
                /\ op' = r.op
                /\ UNCHANGED unixtime
                /\ UNCHANGED <<schedVars, args, out, cacheVars>>

\* a day passes
AdvanceTime ==
    /\ unixtime < MaxDays * SecondsPerDay
    /\ unixtime' = unixtime + SecondsPerDay
    /\ UNCHANGED <<manager_instances, files, downloads, op>>
    /\ UNCHANGED <<schedVars, args, out, cacheVars>>

GtfsNext == GetGtfsManager \/ CallLoadStaticFeed \/ AdvanceTime

GtfsSpec == GtfsInit /\ [][GtfsNext]_vars

\* the step is a _load_static_feed call of the manager of pair key
LoadStepOf(key) ==
    /\ op'.kind = "load"
    /\ op'.pair = key
    /\ unixtime' = unixtime
    /\ key \in DOMAIN manager_instances

\* the step is a get_gtfs_manager call
GetStep == op'.kind = "get" /\ unixtime' = unixtime

\* the pickle files of the cache directory of manager m
CacheFiles(fs, m) == {f \in fs : f.dir = m.cache_dir}

\* C31 as stated: whenever the loader consults the disk cache, a file with
\* a past expiry is never the one loaded, and after the lookup (reuse or
\* miss) no file with a past expiry remains in the cache directory
C31_NoExpiredFileRemains ==
    [][\A key \in UrlPairs :
         (LoadStepOf(key) /\ op'.looked)
           => (/\ op'.path # NoFile => ~Expired(op'.path, unixtime)
               /\ \A f \in CacheFiles(files', manager_instances[key]) :
                      ~Expired(f, unixtime))]_vars

\* C31, amended: a file with a past expiry is never the one loaded; after a
\* lookup that ends in a miss, every file with a past expiry that is left
\* in the cache directory is one os.remove failed on
C31_ExpiredRemovedOnMiss ==
    [][\A key \in UrlPairs :
         (LoadStepOf(key) /\ op'.looked)
           => (/\ op'.path # NoFile => ~Expired(op'.path, unixtime)
               /\ op'.path = NoFile =>
                    \A f \in CacheFiles(files', manager_instances[key]) :
                        Expired(f, unixtime) => ~f.removable)]_vars

\* a lookup reused an unexpired file and left a removable expired file of
\* the same directory in place
C31_Witness ==
    /\ op.kind = "load" /\ op.looked /\ op.path # NoFile
    /\ ~Expired(op.path, unixtime)
    /\ op.ret = op.path.feed
    /\ \E f \in files :
          /\ f.dir = op.path.dir
          /\ Expired(f, unixtime)
          /\ f.removable

\* C32: when an unexpired cache file cannot be loaded, the file is removed
\* from the cache directory by the load that found it corrupt
C32_CorruptFileRemoved ==
    [][\A key \in UrlPairs :
         (LoadStepOf(key) /\ op'.looked /\ op'.path # NoFile
            /\ op'.path.corrupt)
           => op'.path \notin files']_vars

\* C33: the disk cache holds at most one file per URL pair (in a
\* directory), and the feed a manager holds was produced from its own pair
C33_OneFilePerPair ==
    /\ \A p \in UrlPairs, d \in {DefaultDir, AltDir} :
          Cardinality({f \in files : f.feed.pair = p /\ f.dir = d}) <= 1
    /\ \A key \in DOMAIN manager_instances :
          manager_instances[key].feed # NoFeed
            => manager_instances[key].feed.pair = key

\* C34: when _save_pickle fails, _load_static_feed returns the parsed feed
\* and keeps it in memory, and a later non-forced load of that manager
\* returns the feed in memory, raises nothing and downloads nothing
C34_PersistFailureTolerated ==
    /\ [][\A key \in UrlPairs :
            (LoadStepOf(key) /\ op'.downloaded /\ ~op'.saved)
              => (/\ ~op'.raised
                  /\ op'.ret # NoFeed
                  /\ manager_instances'[key].feed = op'.ret)]_vars
    /\ [][\A key \in UrlPairs :
            (/\ LoadStepOf(key)
             /\ ~op'.force_refresh
             /\ manager_instances[key].feed # NoFeed
             /\ manager_instances[key].origin = 0)
              => (/\ ~op'.raised
                  /\ op'.ret = manager_instances[key].feed
                  /\ manager_instances'[key].feed = manager_instances[key].feed
                  /\ downloads' = downloads)]_vars

\* the save of a download failed, and a later load returned the feed
C34_Witness ==
    /\ op.kind = "load" /\ ~op.force_refresh /\ ~op.downloaded /\ ~op.looked
    /\ op.pair \in DOMAIN manager_instances
    /\ manager_instances[op.pair].origin = 0
    /\ op.ret = manager_instances[op.pair].feed
    /\ op.ret.version = 1
    /\ downloads = 1
    /\ \A f \in files : f.feed.version = 0

\* C35: get_gtfs_manager returns the one instance of the pair: instances of
\* distinct pairs are distinct, a call adds a manager only for a pair that
\* has none, and a call for a pair that has one changes no manager,
\* whatever cache_dir and cache_days it passes
C35_RegistrySingleton ==
    /\ [](\A k1, k2 \in DOMAIN manager_instances :
             /\ manager_instances[k1].pair = k1
             /\ manager_instances[k1].number = manager_instances[k2].number
                  => k1 = k2)
    /\ [][GetStep
            => (/\ DOMAIN manager_instances' =
                       DOMAIN manager_instances \cup {op'.pair}
                /\ op'.instance = manager_instances'[op'.pair].number
                /\ \A k \in DOMAIN manager_instances :
                       manager_instances'[k] = manager_instances[k])]_vars

\* a manager that has loaded its feed is asked for again, with another
\* cache_dir and cache_days, while a manager of the other pair exists
C35_Witness ==
    /\ op.kind = "get"
    /\ DOMAIN manager_instances = UrlPairs
    /\ manager_instances[op.pair].feed # NoFeed
    /\ manager_instances[op.pair].cache_dir = DefaultDir
    /\ op.asked.cache_dir = AltDir
    /\ op.asked.cache_days # manager_instances[op.pair].cache_days
    /\ op.instance = manager_instances[op.pair].number

\* C38: once a manager holds the feed, a non-forced load returns that feed
\* and touches neither the cache directory nor the network, whatever the
\* expiry of the file the feed came from
C38_MemoryFeedReused ==
    [][\A key \in UrlPairs :
         (/\ LoadStepOf(key)
          /\ ~op'.force_refresh
          /\ manager_instances[key].feed # NoFeed)
           => (/\ op'.ret = manager_instances[key].feed
               /\ ~op'.raised /\ ~op'.looked /\ ~op'.downloaded
               /\ files' = files
               /\ downloads' = downloads
               /\ manager_instances' = manager_instances)]_vars

\* a feed read from a cache file is returned from memory after the expiry
\* of that file has passed, the file still being in the directory
C38_Witness ==
    /\ op.kind = "load" /\ ~op.force_refresh /\ ~op.looked /\ ~op.downloaded
    /\ op.pair \in DOMAIN manager_instances
    /\ manager_instances[op.pair].origin # 0
    /\ manager_instances[op.pair].origin < unixtime
    /\ op.ret = manager_instances[op.pair].feed
    /\ op.ret.version = 0
    /\ \E f \in files : f.expires = manager_instances[op.pair].origin
                          /\ f.feed = op.ret

(***************************************************************************)
(* The scheduler once more: the waits of a pass                            *)
(***************************************************************************)

\* a pass of run()'s while loop ends: control is back at the loop's test
\* and no shutdown was requested
PassEnds == pc # "cycle" /\ pc' = "cycle" /\ ~shutdown_requested'

\* C36: every pass of the scheduler's loop contains at least one timed
\* wait, whatever the configuration: when a pass ends, time.sleep was
\* called in it
C36_EveryPassWaits == [][PassEnds => waited']_vars

====
